---- MODULE Spec2Model ----
(***************************************************************************)
(* A model of the rule-driven KSI validation and scoring engine of         *)
(* lambda/src/handler_basic.py (execute_ksi_validation and the functions   *)
(* it calls) and of the simulated trigger_ksi_validation of                *)
(* lambda/handler.py and deployfixed.py.                                   *)
(*                                                                         *)
(* Representation of Python values:                                        *)
(*   - a str that the code only stores and compares for equality is a TLA+ *)
(*     string; a str that the code ORDERS (a rule's 'version', the sort    *)
(*     key of get_active_rule) is the sequence of its code points, ordered *)
(*     as Python orders str;                                               *)
(*   - a number read from DynamoDB is a Decimal: weights, scores and       *)
(*     minimum_score are exact rationals [num, den] in lowest terms;       *)
(*   - a dict whose iteration order the code depends on (step_results) is  *)
(*     a sequence of [key, value] entries in insertion order; any other    *)
(*     dict is a function whose DOMAIN is its key set;                     *)
(*   - None is the record [none |-> TRUE].                                 *)
(***************************************************************************)
EXTENDS Integers, Sequences, FiniteSets, TLC

None == [none |-> TRUE]

-----------------------------------------------------------------------------
(* Bounds of the model *)

\* longest validation_steps list of a stored rule
MaxSteps == 2
\* longest pass_criteria list of a scoring specification
MaxCriteria == 2
\* largest metric value / threshold the scoring inputs are drawn from
MaxMetric == 2
\* number of rule versions stored for one KSI in the rules table
MaxVersions == 2
\* largest number of entries of a tenant's enabled_ksis
MaxKsis == 2

-----------------------------------------------------------------------------
(* Python str ordering: sequences of code points *)

\* ord('.') and ord('0')
DotChar == <<46>>
DigitChar(d) == 48 + d

RECURSIVE StrOfNat(_)
\* str(n) for a natural number n, as code points
StrOfNat(n) ==
    IF n < 10 THEN <<DigitChar(n)>>
    ELSE StrOfNat(n \div 10) \o <<DigitChar(n % 10)>>

\* the version string "<major>.<minor>" that the population scripts store
VersionStr(major, minor) == StrOfNat(major) \o DotChar \o StrOfNat(minor)

RECURSIVE StrLess(_, _)
\* a < b for two Python str values (lexicographic by code point)
StrLess(a, b) ==
    IF b = <<>> THEN FALSE
    ELSE IF a = <<>> THEN TRUE
    ELSE IF Head(a) # Head(b) THEN Head(a) < Head(b)
    ELSE StrLess(Tail(a), Tail(b))

-----------------------------------------------------------------------------
(* Decimal arithmetic: exact rationals in lowest terms *)

RECURSIVE GCD(_, _)
GCD(a, b) == IF b = 0 THEN a ELSE GCD(b, a % b)

Abs(x) == IF x < 0 THEN -x ELSE x

\* n/d in lowest terms, d > 0
Rat(n, d) ==
    LET g == GCD(Abs(n), Abs(d))
        s == IF d < 0 THEN -1 ELSE 1
    IN  IF n = 0 THEN [num |-> 0, den |-> 1]
        ELSE [num |-> s * (n \div g), den |-> s * (d \div g)]

RatZero == Rat(0, 1)
RatOne == Rat(1, 1)
RatAdd(a, b) == Rat(a.num * b.den + b.num * a.den, a.den * b.den)
RatDiv(a, b) == Rat(a.num * b.den, a.den * b.num)
RatLess(a, b) == a.num * b.den < b.num * a.den
RatLeq(a, b) == a.num * b.den <= b.num * a.den

-----------------------------------------------------------------------------
(* dict helpers *)

\* d.get(k, default) on a dict modelled as a function
DictGet(d, k, default) == IF k \in DOMAIN d THEN d[k] ELSE default

\* DictUpdate in which the keys already in d keep their value
DictUpdateKeepFirst(d, e) ==
    [k \in DOMAIN d \cup DOMAIN e |-> IF k \in DOMAIN d THEN d[k] ELSE e[k]]

\* d.update(e): the keys of e win
DictUpdate(d, e) ==
    [k \in DOMAIN d \cup DOMAIN e |-> IF k \in DOMAIN e THEN e[k] ELSE d[k]]

EmptyDict == [k \in {} |-> None]

\* d[key] = value on an insertion-ordered dict: a key already present keeps
\* its place and takes the new value, a new key goes to the end
OrderedSet(d, key, value) ==
    IF \E i \in 1..Len(d) : d[i].key = key
    THEN [i \in 1..Len(d) |->
            IF d[i].key = key THEN [key |-> key, value |-> value] ELSE d[i]]
    ELSE Append(d, [key |-> key, value |-> value])

-----------------------------------------------------------------------------
(* merge_parameters *)

\* merge_parameters applying every override, declared or not
merge_parameters_unfiltered(default_params, tenant_overrides) ==
    [param_name \in DOMAIN default_params \cup DOMAIN tenant_overrides |->
        IF param_name \in DOMAIN tenant_overrides
        THEN tenant_overrides[param_name]
        ELSE default_params[param_name].default]

\* merge_parameters(default_params, tenant_overrides): every declared name
\* starts at its 'default'; an override replaces it only when the name is
\* declared
merge_parameters(default_params, tenant_overrides) ==
    [param_name \in DOMAIN default_params |->
        IF param_name \in DOMAIN tenant_overrides
        THEN tenant_overrides[param_name]
        ELSE default_params[param_name].default]

-----------------------------------------------------------------------------
(* get_active_rule *)

\* QueryActive without the filter on status
QueryAnyStatus(table, ksi_id) ==
    SelectSeq(table, LAMBDA r : r.ksi_id = ksi_id)

\* the table.query of get_active_rule: the items of one ksi_id that pass the
\* filter status = 'active', in the order the index returns them
QueryActive(table, ksi_id) ==
    SelectSeq(table, LAMBDA r : r.ksi_id = ksi_id /\ r.status = "active")

RECURSIVE InsertDesc(_, _)
\* x put into the descending list s behind every element whose version is
\* not smaller (list.sort is stable, also with reverse=True)
InsertDesc(s, x) ==
    IF s = <<>> THEN <<x>>
    ELSE IF StrLess(Head(s).version, x.version) THEN <<x>> \o s
    ELSE <<Head(s)>> \o InsertDesc(Tail(s), x)

RECURSIVE SortByVersionDesc(_)
\* rules.sort(key=lambda x: x['version'], reverse=True)
SortByVersionDesc(rules) ==
    IF rules = <<>> THEN <<>>
    ELSE InsertDesc(SortByVersionDesc(SubSeq(rules, 1, Len(rules) - 1)),
                    rules[Len(rules)])

\* get_active_rule(ksi_id): None when the query raises or returns no item,
\* else the first item after the descending sort by version
get_active_rule(table, ksi_id, query_ok) ==
    IF ~query_ok THEN None
    ELSE LET rules == QueryActive(table, ksi_id)
         IN  IF rules = <<>> THEN None
             ELSE SortByVersionDesc(rules)[1]

\* get_tenant_rule_overrides(tenant_id, rule_id): the stored item, or {} when
\* there is none or the read raises
get_tenant_rule_overrides(table, tenant_id, rule_id, read_ok) ==
    LET key == <<tenant_id, rule_id>>
    IN  IF read_ok /\ key \in DOMAIN table THEN table[key] ELSE EmptyDict

-----------------------------------------------------------------------------
(* extract_metrics and summarize_aws_result *)

\* result.get(k, [])
ListOf(result, k) == DictGet(result, k, <<>>)

\* sum(1 for x in items if x.get(flag))
CountFlag(items, flag) ==
    Cardinality({i \in 1..Len(items) :
                    flag \in DOMAIN items[i] /\ items[i][flag] = TRUE})

\* a metric map that counts the call
CallCountMetrics == [api_calls |-> 1]

\* metrics = {}: the map extract_metrics returns when no branch fills it
NoMetrics == EmptyDict

\* extract_metrics(service, action, result)
extract_metrics(service, action, result) ==
    IF service = "cloudtrail" THEN
        IF action = "describe_trails" THEN
            LET trails == ListOf(result, "trailList")
            IN  [trail_count |-> Len(trails),
                 multi_region_trails |-> CountFlag(trails, "IsMultiRegionTrail"),
                 logging_enabled_trails |-> CountFlag(trails, "IsLogging")]
        ELSE IF action = "lookup_events" THEN
            [recent_events |-> Len(ListOf(result, "Events"))]
        ELSE NoMetrics
    ELSE IF service = "logs" /\ action = "describe_log_groups" THEN
        LET log_groups == ListOf(result, "logGroups")
            retention(lg) == DictGet(lg, "retentionInDays", 0)
        IN  [log_group_count |-> Len(log_groups),
             groups_with_retention |->
                Cardinality({i \in 1..Len(log_groups) : retention(log_groups[i]) # 0}),
             long_retention_groups |->
                Cardinality({i \in 1..Len(log_groups) : retention(log_groups[i]) >= 365})]
    ELSE IF service = "kms" THEN
        IF action = "list_keys" THEN
            [kms_key_count |-> Len(ListOf(result, "Keys"))]
        ELSE IF action = "list_aliases" THEN
            [key_aliases |-> Len(ListOf(result, "Aliases"))]
        ELSE NoMetrics
    ELSE IF service = "sns" /\ action = "list_topics" THEN
        [sns_topic_count |-> Len(ListOf(result, "Topics"))]
    ELSE IF service = "cloudwatch" /\ action = "describe_alarms" THEN
        [cloudwatch_alarms |-> Len(ListOf(result, "MetricAlarms"))]
    ELSE IF service = "s3" /\ action = "list_buckets" THEN
        [s3_bucket_count |-> Len(ListOf(result, "Buckets"))]
    ELSE IF service = "rds" /\ action = "describe_db_instances" THEN
        LET instances == ListOf(result, "DBInstances")
        IN  [rds_instance_count |-> Len(instances),
             encrypted_rds_instances |-> CountFlag(instances, "StorageEncrypted")]
    ELSE IF service = "acm" /\ action = "list_certificates" THEN
        [certificate_count |-> Len(ListOf(result, "CertificateSummaryList"))]
    ELSE IF service = "securityhub" THEN
        IF action = "get_findings" THEN
            LET findings == ListOf(result, "Findings")
            IN  [security_hub_findings |-> Len(findings),
                 active_findings |->
                    Cardinality({i \in 1..Len(findings) :
                        /\ "RecordState" \in DOMAIN findings[i]
                        /\ findings[i].RecordState = "ACTIVE"})]
        ELSE IF action = "get_insights" THEN
            [security_insights |-> Len(ListOf(result, "Insights"))]
        ELSE NoMetrics
    ELSE NoMetrics

\* summarize_aws_result(service, action, result): the f-string, as the
\* tuple of its parts
summarize_aws_result(service, action, result) ==
    IF service = "cloudtrail" /\ action = "describe_trails"
    THEN <<Len(ListOf(result, "trailList")), " CloudTrail trails found">>
    ELSE IF service = "logs" /\ action = "describe_log_groups"
    THEN <<Len(ListOf(result, "logGroups")), " log groups found">>
    ELSE IF service = "kms" /\ action = "list_keys"
    THEN <<Len(ListOf(result, "Keys")), " KMS keys found">>
    ELSE <<service, ".", action, " executed successfully">>

-----------------------------------------------------------------------------
(* evaluate_criterion and calculate_ksi_score *)

\* the operators evaluate_criterion knows
KnownOperators == {">=", ">", "<=", "<", "==", "!="}

\* evaluate_criterion(actual, operator, expected)
evaluate_criterion(actual, operator, expected) ==
    IF operator = ">=" THEN actual >= expected
    ELSE IF operator = ">" THEN actual > expected
    ELSE IF operator = "<=" THEN actual <= expected
    ELSE IF operator = "<" THEN actual < expected
    ELSE IF operator = "==" THEN actual = expected
    ELSE IF operator = "!=" THEN actual # expected
    ELSE FALSE

RECURSIVE AggregateMetrics(_)
\* the first loop of calculate_ksi_score: all_metrics.update(metrics) for
\* every value of step_results that is a dict holding 'metrics', in the
\* dict's insertion order
AggregateMetrics(step_results) ==
    IF step_results = <<>> THEN EmptyDict
    ELSE LET n == Len(step_results)
             last == step_results[n].value
             before == AggregateMetrics(SubSeq(step_results, 1, n - 1))
         IN  IF last.isdict /\ "metrics" \in DOMAIN last
             THEN DictUpdate(before, last.metrics)
             ELSE before

\* the state of the criteria loop before its first iteration
ScoreStart == [total_weight |-> RatZero, achieved_weight |-> RatZero, findings |-> <<>>]

\* CriterionStep counting the weight of a criterion only when its operator
\* is known
CriterionStepSkipUnknown(acc, criterion, all_metrics) ==
    LET actual_value == DictGet(all_metrics, criterion.metric, 0)
        passed == evaluate_criterion(actual_value, criterion.operator, criterion.value)
        finding == [passed |-> passed,
                    description |-> DictGet(criterion, "description", criterion.metric),
                    actual |-> actual_value, operator |-> criterion.operator,
                    expected |-> criterion.value]
    IN  [total_weight |->
            IF criterion.operator \in KnownOperators
            THEN RatAdd(acc.total_weight, criterion.weight)
            ELSE acc.total_weight,
         achieved_weight |->
            IF passed THEN RatAdd(acc.achieved_weight, criterion.weight)
            ELSE acc.achieved_weight,
         findings |-> Append(acc.findings, finding)]

\* one iteration of the loop over scoring_rules['pass_criteria']
CriterionStep(acc, criterion, all_metrics) ==
    LET description == DictGet(criterion, "description", criterion.metric)
        actual_value == DictGet(all_metrics, criterion.metric, 0)
        passed == evaluate_criterion(actual_value, criterion.operator, criterion.value)
        finding == [passed |-> passed, description |-> description,
                    actual |-> actual_value, operator |-> criterion.operator,
                    expected |-> criterion.value]
    IN  [total_weight |-> RatAdd(acc.total_weight, criterion.weight),
         achieved_weight |->
            IF passed THEN RatAdd(acc.achieved_weight, criterion.weight)
            ELSE acc.achieved_weight,
         findings |-> Append(acc.findings, finding)]

RECURSIVE CriteriaLoop(_, _)
\* the loop over scoring_rules['pass_criteria'], in list order
CriteriaLoop(pass_criteria, all_metrics) ==
    IF pass_criteria = <<>> THEN ScoreStart
    ELSE LET n == Len(pass_criteria)
         IN  CriterionStep(CriteriaLoop(SubSeq(pass_criteria, 1, n - 1), all_metrics),
                           pass_criteria[n], all_metrics)

\* FinalScore as a percentage
FinalScorePercent(achieved_weight, total_weight) ==
    IF RatLess(RatZero, total_weight)
    THEN LET share == RatDiv(achieved_weight, total_weight)
         IN  Rat(share.num * 100, share.den)
    ELSE RatZero

\* score = achieved_weight / total_weight if total_weight > 0 else 0
FinalScore(achieved_weight, total_weight) ==
    IF RatLess(RatZero, total_weight) THEN RatDiv(achieved_weight, total_weight)
    ELSE RatZero

\* scoring_rules.get('minimum_score', 0.7)
MinimumScoreOf(scoring_rules) == DictGet(scoring_rules, "minimum_score", Rat(7, 10))

\* ScoreStatus with score > minimum_score
ScoreStatusStrict(score, minimum_score) ==
    IF RatLess(minimum_score, score) THEN "PASS" ELSE "FAIL"

\* status = 'PASS' if score >= minimum_score else 'FAIL'
ScoreStatus(score, minimum_score) ==
    IF RatLeq(minimum_score, score) THEN "PASS" ELSE "FAIL"

\* calculate_ksi_score with the expected value of the trail_count criterion
\* taken from the merged parameter min_trail_count
calculate_ksi_score_parameterized(step_results, scoring_rules, parameters) ==
    LET all_metrics == AggregateMetrics(step_results)
        stored == scoring_rules.pass_criteria
        criteria == [n \in 1..Len(stored) |->
                        IF stored[n].metric = "trail_count"
                           /\ "min_trail_count" \in DOMAIN parameters
                        THEN [stored[n] EXCEPT !.value = parameters.min_trail_count]
                        ELSE stored[n]]
        acc == CriteriaLoop(criteria, all_metrics)
        score == FinalScore(acc.achieved_weight, acc.total_weight)
        minimum_score == MinimumScoreOf(scoring_rules)
    IN  [status |-> ScoreStatus(score, minimum_score),
         score |-> score,
         minimum_score |-> minimum_score,
         findings |-> acc.findings,
         scores |-> all_metrics]

\* calculate_ksi_score(step_results, scoring_rules, parameters)
calculate_ksi_score(step_results, scoring_rules, parameters) ==
    LET all_metrics == AggregateMetrics(step_results)
        acc == CriteriaLoop(scoring_rules.pass_criteria, all_metrics)
        score == FinalScore(acc.achieved_weight, acc.total_weight)
        minimum_score == MinimumScoreOf(scoring_rules)
    IN  [status |-> ScoreStatus(score, minimum_score),
         score |-> score,
         minimum_score |-> minimum_score,
         findings |-> acc.findings,
         scores |-> all_metrics]

-----------------------------------------------------------------------------
(* State *)

VARIABLES
    rules_table,      \* the validation-rules table: its items, in index order
    overrides_table,  \* the tenant-rule-overrides table: (tenant_id, rule_id) -> item
    tenant,           \* the tenant record execute_ksi_validation is given
    run,              \* 1 for the first call of execute_ksi_validation, 2 for a repeat
    pc,               \* where the running call stands
    rule,             \* local 'rule'
    parameters,       \* local 'parameters'
    session,          \* local 'session'
    idx,              \* position of the step loop in rule['validation_steps']
    step_results,     \* local 'step_results'
    result,           \* the value the call returned
    calls,            \* the remote calls made so far, each with the answer it got
    attempts,         \* the steps run so far, each with whether it raised
    env,              \* what the stores and STS answered to this call
    scored,           \* how often calculate_ksi_score was called by this call
    prev,             \* the result of the first call, once a repeat was started
    replay,           \* the answers the first call got, for the repeat
    call,             \* a direct call of one pure function: its name and arguments
    ret,              \* what that direct call returned
    t_request,        \* trigger_ksi_validation: the validation_request it is given
    t_rules,          \* trigger_ksi_validation: the items a scan of the rules table returns
    t_run,            \* trigger_ksi_validation: 1 for the first call, 2 for a repeat
    t_pc,             \* trigger_ksi_validation: where the running call stands
    t_available,      \* trigger_ksi_validation: local 'available_ksis'
    t_i,              \* trigger_ksi_validation: position of the loop in available_ksis
    t_results,        \* trigger_ksi_validation: local 'validation_results'
    t_executions,     \* the executions table: the items put, in order
    t_response,       \* trigger_ksi_validation: the response returned
    t_first,          \* the validation_results of the first call, once a repeat was started
    ksi,              \* the ksi_id execute_ksi_validation is given
    tv_tenants,       \* the tenants table: tenant_id -> item
    tv_tenant_id,     \* trigger_tenant_validation: the tenant_id it is given
    tv_pc,            \* trigger_tenant_validation: where the running call stands
    tv_i,             \* trigger_tenant_validation: position of the loop in enabled_ksis
    tv_results,       \* trigger_tenant_validation: local 'results'
    tv_saves,         \* the calls of save_execution_record made so far
    tv_records,       \* the executions table: the records save_execution_record put
    tv_response,      \* trigger_tenant_validation: the response returned
    ob_tenant,        \* onboarding: the item of the tenant in the tenants table, or None
    ob_req,           \* onboarding: the requests being handled, each with its locals
    ob_tested,        \* onboarding: how the last test_cross_account_connection ended
    cu_pc,            \* cleanupdb: where main stands
    cu_dry_run,       \* cleanupdb: DRY_RUN
    cu_table,         \* cleanupdb: the records of the executions table
    cu_corrupt,       \* cleanupdb: local 'corrupt_records'
    cu_backup,        \* cleanupdb: where the backup went, once it was made
    cu_deleted        \* cleanupdb: the keys delete_item was called with

engineVars == <<ksi, rules_table, overrides_table, tenant, run, pc, rule, parameters,
                session, idx, step_results, result, calls, attempts, env, scored,
                prev, replay>>
fnVars == <<call, ret>>
trigVars == <<t_request, t_rules, t_run, t_pc, t_available, t_i, t_results,
              t_executions, t_response, t_first>>
tvVars == <<tv_tenants, tv_tenant_id, tv_pc, tv_i, tv_results, tv_saves, tv_records,
            tv_response>>
adminVars == <<ob_tenant, ob_req, ob_tested, cu_pc, cu_dry_run, cu_table, cu_corrupt,
               cu_backup, cu_deleted>>
vars == <<engineVars, fnVars, trigVars, tvVars, adminVars>>

NoResult == [status |-> "NONE"]
NoEnv == [query_ok |-> TRUE, read_ok |-> TRUE, assume |-> "none"]
NoReplay == [env |-> NoEnv, calls |-> <<>>, swapped |-> {}]
NoCall == [fn |-> "none"]
NoRequest == [none |-> TRUE]
NoResponse == [statusCode |-> 0]
NotReturned == [returned |-> FALSE]

\* trigger_tenant_validation has not been called
TenantIdle ==
    /\ tv_tenants = <<>>
    /\ tv_tenant_id = ""
    /\ tv_pc = "idle"
    /\ tv_i = 0
    /\ tv_results = <<>>
    /\ tv_saves = <<>>
    /\ tv_records = <<>>
    /\ tv_response = [statusCode |-> 0]

\* the requests the onboarding handlers are run for
Requests == {1, 2}

\* no onboarding request was made
OnboardingIdle ==
    /\ ob_tenant = None
    /\ ob_req = [r \in Requests |-> [pc |-> "idle"]]
    /\ ob_tested = "none"

\* cleanupdb was not started
CleanupIdle ==
    /\ cu_pc = "idle"
    /\ cu_dry_run = TRUE
    /\ cu_table = <<>>
    /\ cu_corrupt = <<>>
    /\ cu_backup = "none"
    /\ cu_deleted = {}

AdminIdle == OnboardingIdle /\ CleanupIdle

-----------------------------------------------------------------------------
(* The stored data the engine is run on *)

KsiId == "KSI-MLA-01"
TenantId == "tenant-sample"
OwnAccount == "111111111111"
OtherAccount == "222222222222"
RoleArn == "arn:aws:iam::222222222222:role/ksi-validation"

FailureActions == {"fail_ksi", "warn", "ignore"}

\* the (service, action) pairs of the steps of the stored rules: two the
\* client library has and that take no parameters, one it has that is stored
\* with a parameter it does not accept, and one it does not have
StepOps ==
    {<<"cloudtrail", "describe_trails">>, <<"kms", "list_keys">>,
     <<"cloudtrail", "lookup_events">>, <<"cloudtrail", "describe_trail">>}

\* the 'parameters' a step of that kind is stored with
StepParameters(service, action) ==
    IF service = "cloudtrail" /\ action = "lookup_events"
    THEN [MaxItems |-> 10]
    ELSE IF service = "cloudtrail" /\ action = "get_trail_status"
    THEN [Name |-> "auto_detect_first_trail"]
    ELSE EmptyDict

\* the kinds of step the stored rules are built from: a (service, action)
\* pair with a failure_action
StepKinds == {<<op[1], op[2], fa>> : op \in StepOps, fa \in FailureActions}

\* one entry of validation_steps
Step(id, kind) ==
    [step_id |-> id, service |-> kind[1], action |-> kind[2],
     parameters |-> StepParameters(kind[1], kind[2]), failure_action |-> kind[3]]

\* the validation_steps lists: up to MaxSteps steps, step_id 1, 2, ... in list order
StepLists ==
    UNION {{[i \in 1..n |-> Step(i, kinds[i])] : kinds \in [1..n -> StepKinds]} :
           n \in 0..MaxSteps}

Criterion(metric, operator, value, weight) ==
    [metric |-> metric, operator |-> operator, value |-> value, weight |-> weight]

\* scoring_rules: one criterion of weight 0.6 and one of weight 0.4, with
\* minimum_score 0.5, 0.7, or left to the default
EngineScoring ==
    LET criteria == <<Criterion("trail_count", ">=", 1, Rat(6, 10)),
                      Criterion("kms_key_count", ">=", 1, Rat(4, 10))>>
    IN  {[pass_criteria |-> criteria, minimum_score |-> Rat(5, 10)],
         [pass_criteria |-> criteria]}

EngineParameters ==
    [min_trail_count |-> [default |-> 1, description |-> "Minimum CloudTrail trails required"]]

Rule(version, status, steps, scoring) ==
    [rule_id |-> <<KsiId, version>>, ksi_id |-> KsiId, version |-> version,
     status |-> status, validation_steps |-> steps, scoring_rules |-> scoring,
     configurable_parameters |-> EngineParameters]

\* a rule that was stored with validation_steps and without scoring_rules
RuleWithoutScoring(version, status, steps) ==
    [rule_id |-> <<KsiId, version>>, ksi_id |-> KsiId, version |-> version,
     status |-> status, validation_steps |-> steps]

EngineRules ==
    {Rule(VersionStr(1, 0), "active", steps, scoring) :
        steps \in StepLists, scoring \in EngineScoring}
    \cup {RuleWithoutScoring(VersionStr(1, 0), "active", steps) : steps \in StepLists}

\* the rules table: empty, one active rule, or one inactive rule
EngineRuleTables ==
    {<<>>} \cup {<<r>> : r \in EngineRules}
           \cup {<<[r EXCEPT !.status = "inactive"]>> : r \in {Rule(VersionStr(1, 0), "active", <<>>, s) : s \in EngineScoring}}

\* the overrides table without an item for the tenant
NoOverrides == EmptyDict

\* the overrides table with an item that overrides the declared parameter and
\* names an undeclared one
TenantOverrides(rule_id) ==
    [k \in {<<TenantId, rule_id>>} |->
        [tenant_id |-> TenantId, rule_id |-> rule_id, enabled |-> TRUE,
         custom_parameters |-> [min_trail_count |-> 2, max_age_days |-> 90]]]

\* the account the engine itself runs in (sts get_caller_identity)
CurrentAccount == OwnAccount

\* the tenant: in the engine's own account, or in another account with or
\* without a cross-account role
OwnTenant ==
    [tenant_id |-> TenantId, account_id |-> OwnAccount, cross_account_role_arn |-> ""]
CrossTenant ==
    [tenant_id |-> TenantId, account_id |-> OtherAccount, cross_account_role_arn |-> RoleArn]
UnconfiguredTenant ==
    [tenant_id |-> TenantId, account_id |-> OtherAccount, cross_account_role_arn |-> ""]

\* the tenants the engine is run for, each with its overrides table
TenantSetups(rule_id) ==
    {[tenant |-> OwnTenant, overrides |-> NoOverrides],
     [tenant |-> CrossTenant, overrides |-> TenantOverrides(rule_id)],
     [tenant |-> UnconfiguredTenant, overrides |-> NoOverrides]}

-----------------------------------------------------------------------------
(* The remote side: what a call can answer *)

Trail(name, multi, logging) ==
    [Name |-> name, IsMultiRegionTrail |-> multi, IsLogging |-> logging]

Ok(r) == [ok |-> TRUE, result |-> r]
Raise(msg) == [ok |-> FALSE, error |-> msg]

\* the answers of one remote call: a response, or an exception
Answers(service, action) ==
    {Raise("AccessDeniedException")} \cup
    (IF service = "cloudtrail" /\ action = "describe_trails"
     THEN {Ok([trailList |-> <<>>]),
           Ok([trailList |-> <<Trail("main", TRUE, TRUE), Trail("dev", FALSE, TRUE)>>])}
     ELSE IF service = "kms" /\ action = "list_keys"
     THEN {Ok([Keys |-> <<>>]), Ok([Keys |-> <<[KeyId |-> "k1"]>>])}
     ELSE IF service = "cloudtrail" /\ action = "get_trail_status"
     THEN {Ok([IsLogging |-> TRUE]), Ok([IsLogging |-> FALSE])}
     ELSE {Ok(EmptyDict)})

\* the answer to the n-th remote call of the running call: any answer in a
\* first call, the answer the first call got in a repeat
EnvAnswers(n, service, action) ==
    IF run = 2 /\ n <= Len(replay.calls) THEN {replay.calls[n].answer}
    ELSE Answers(service, action)

NoAnswer == [ok |-> FALSE, error |-> "not called"]

\* the (service, action) pairs for which session.client(service) has a
\* method named action
ClientMethods ==
    {<<"cloudtrail", "describe_trails">>, <<"cloudtrail", "lookup_events">>,
     <<"cloudtrail", "get_trail_status">>, <<"kms", "list_keys">>}

\* the parameter names method(**step_params) accepts; any other name makes
\* the client raise before it sends anything
AcceptedParameters(service, action) ==
    IF service = "cloudtrail" /\ action = "lookup_events"
    THEN {"LookupAttributes", "StartTime", "EndTime", "EventCategory", "MaxResults",
          "NextToken"}
    ELSE IF service = "cloudtrail" /\ action = "get_trail_status" THEN {"Name"}
    ELSE IF service = "cloudtrail" /\ action = "describe_trails"
    THEN {"trailNameList", "includeShadowTrails"}
    ELSE IF service = "kms" /\ action = "list_keys" THEN {"Limit", "Marker"}
    ELSE {}

\* whether getattr(client, action)(**step_params) gets as far as the remote call
ReachesRemote(service, action, step_params) ==
    /\ <<service, action>> \in ClientMethods
    /\ DOMAIN step_params \subseteq AcceptedParameters(service, action)

-----------------------------------------------------------------------------
(* execute_validation_step *)

Sentinel == "auto_detect_first_trail"

\* 'auto_detect_first_trail' in step_params.get('Name', '')
HasSentinel(step_params) ==
    "Name" \in DOMAIN step_params /\ step_params.Name = Sentinel

\* the name of the last trail of the listing
LastTrailName(trails) == trails[Len(trails)].Name

\* trails[0]['Name']
FirstTrailName(trails) == trails[1].Name

\* CallRecord for a client made from the engine's default session instead of
\* the session passed in
CallRecordDefaultSession(step, service, action, params, sess, answer) ==
    [step_id |-> step.step_id, service |-> service, action |-> action,
     parameters |-> params, session |-> [kind |-> "own"], answer |-> answer]

CallRecord(step, service, action, params, sess, answer) ==
    [step_id |-> step.step_id, service |-> service, action |-> action,
     parameters |-> params, session |-> sess, answer |-> answer]

\* execute_validation_step(step, session, parameters), given what the listing
\* call (made only for the sentinel) and the main call answer: whether it
\* raised, the message or the returned dict, and the remote calls it made
execute_validation_step(step, sess, params, listing, main) ==
    LET step_params == step.parameters
        sentinel == HasSentinel(step_params)
        listed == CallRecord(step, "cloudtrail", "describe_trails", EmptyDict, sess, listing)
        trails == IF sentinel /\ listing.ok THEN listing.result.trailList ELSE <<>>
        call_params == IF sentinel /\ trails # <<>>
                       THEN [step_params EXCEPT !.Name = FirstTrailName(trails)]
                       ELSE step_params
        called == CallRecord(step, step.service, step.action, call_params, sess, main)
    IN  IF sentinel /\ ~listing.ok
        THEN [raised |-> TRUE, error |-> listing.error, made |-> <<listed>>]
        ELSE IF sentinel /\ trails = <<>>
        THEN [raised |-> TRUE, error |-> "No trails found for trail status check",
              made |-> <<listed>>]
        ELSE IF <<step.service, step.action>> \notin ClientMethods
        THEN [raised |-> TRUE, error |-> "AttributeError",
              made |-> IF sentinel THEN <<listed>> ELSE <<>>]
        ELSE IF ~ReachesRemote(step.service, step.action, call_params)
        THEN [raised |-> TRUE, error |-> "ParamValidationError",
              made |-> IF sentinel THEN <<listed>> ELSE <<>>]
        ELSE IF ~main.ok
        THEN [raised |-> TRUE, error |-> main.error,
              made |-> (IF sentinel THEN <<listed>> ELSE <<>>) \o <<called>>]
        ELSE [raised |-> FALSE,
              value |-> [isdict |-> TRUE, success |-> TRUE,
                         metrics |-> extract_metrics(step.service, step.action, main.result),
                         raw_result_summary |->
                            summarize_aws_result(step.service, step.action, main.result)],
              made |-> (IF sentinel THEN <<listed>> ELSE <<>>) \o <<called>>]

-----------------------------------------------------------------------------
(* execute_ksi_validation *)

\* the result of the outer 'except Exception' of execute_ksi_validation
ErrorResult(msg) ==
    [ksi_id |-> ksi, status |-> "ERROR", error |-> msg, rule_version |-> "unknown"]

\* CriticalResult with the failing step's message added to step_results
CriticalResultWithFailedStep(step, msg, results) ==
    [ksi_id |-> ksi, status |-> "FAIL",
     error |-> <<"Critical step ", step.step_id, " failed: ", msg>>,
     rule_version |-> rule.version,
     step_results |-> OrderedSet(results, <<"step_", step.step_id, "_error">>,
                                 [isdict |-> FALSE, text |-> msg])]

\* the result returned when a 'fail_ksi' step raised
CriticalResult(step, msg, results) ==
    [ksi_id |-> ksi, status |-> "FAIL",
     error |-> <<"Critical step ", step.step_id, " failed: ", msg>>,
     rule_version |-> rule.version, step_results |-> results]

\* the result returned after scoring
ScoredResult(score_result) ==
    [ksi_id |-> ksi, status |-> score_result.status, score |-> score_result.score,
     findings |-> score_result.findings, scores |-> score_result.scores,
     step_results |-> step_results, rule_version |-> rule.version,
     parameters_used |-> parameters]

StepKey(step) == <<"step_", step.step_id>>
StepErrorKey(step) == <<"step_", step.step_id, "_error">>

\* AbsorbFailure recording nothing, for 'warn' as for 'ignore'
AbsorbFailureSilently(results, step, msg) == results

\* AbsorbFailure recording the message for 'ignore' as for 'warn'
AbsorbFailureRecorded(results, step, msg) ==
    OrderedSet(results, StepErrorKey(step), [isdict |-> FALSE, text |-> msg])

\* what the 'except' clause of the step loop does with step_results when a
\* step whose failure_action is not 'fail_ksi' raised
AbsorbFailure(results, step, msg) ==
    IF step.failure_action = "warn"
    THEN OrderedSet(results, StepErrorKey(step), [isdict |-> FALSE, text |-> msg])
    ELSE results

\* AbortsRun comparing with the policy name 'fail_check' instead of 'fail_ksi'
AbortsRunOtherName(step) == step.failure_action = "fail_check"

\* whether the 'except' clause of the step loop returns from the call
AbortsRun(step) == step.failure_action = "fail_ksi"

\* steps 1-3: get_active_rule, get_tenant_rule_overrides, merge_parameters
ResolveRule ==
    /\ pc = "start"
    /\ \E query_ok \in (IF run = 2 THEN {replay.env.query_ok} ELSE BOOLEAN) :
         LET r == get_active_rule(rules_table, ksi, query_ok)
         IN  IF r = None
             THEN /\ result' = ErrorResult(<<"No active validation rule found for ", ksi>>)
                  /\ pc' = "done"
                  /\ env' = [env EXCEPT !.query_ok = query_ok]
                  /\ UNCHANGED <<rule, parameters>>
             ELSE \E read_ok \in (IF run = 2 THEN {replay.env.read_ok} ELSE BOOLEAN) :
                    LET tenant_overrides ==
                            get_tenant_rule_overrides(overrides_table, tenant.tenant_id,
                                                      r.rule_id, read_ok)
                    IN  /\ rule' = r
                        /\ parameters' =
                             merge_parameters(DictGet(r, "configurable_parameters", EmptyDict),
                                              DictGet(tenant_overrides, "custom_parameters", EmptyDict))
                        /\ env' = [env EXCEPT !.query_ok = query_ok, !.read_ok = read_ok]
                        /\ pc' = "assume"
                        /\ UNCHANGED result
    /\ UNCHANGED <<ksi, rules_table, overrides_table, tenant, run, session, idx, step_results,
                   calls, attempts, scored, prev, replay, fnVars, trigVars, tvVars, adminVars>>

\* AssumeRole falling back to the engine's own session when the tenant of
\* another account has no cross-account role
AssumeRoleFallback ==
    /\ pc = "assume"
    /\ \E sts \in (IF run = 2 THEN {replay.env.assume} ELSE {"ok", "raise"}) :
         /\ env' = [env EXCEPT !.assume = sts]
         /\ IF sts = "raise"
            THEN /\ result' = ErrorResult("sts call failed")
                 /\ pc' = "done"
                 /\ UNCHANGED <<session, idx>>
            ELSE /\ session' = IF tenant.account_id = CurrentAccount
                                  \/ tenant.cross_account_role_arn = ""
                               THEN [kind |-> "own"]
                               ELSE [kind |-> "assumed", role |-> tenant.cross_account_role_arn]
                 /\ idx' = 1
                 /\ pc' = IF rule.validation_steps = <<>> THEN "score" ELSE "steps"
                 /\ UNCHANGED result
    /\ UNCHANGED <<ksi, rules_table, overrides_table, tenant, run, rule, parameters,
                   step_results, calls, attempts, scored, prev, replay, fnVars, trigVars,
                   tvVars, adminVars>>

\* step 4: assume_role_for_tenant
AssumeRole ==
    /\ pc = "assume"
    /\ \E sts \in (IF run = 2 THEN {replay.env.assume} ELSE {"ok", "raise"}) :
         /\ env' = [env EXCEPT !.assume = sts]
         /\ IF sts = "raise"
            THEN /\ result' = ErrorResult("sts call failed")
                 /\ pc' = "done"
                 /\ UNCHANGED <<session, idx>>
            ELSE IF tenant.account_id = CurrentAccount
            THEN /\ session' = [kind |-> "own"]
                 /\ idx' = 1
                 /\ pc' = IF rule.validation_steps = <<>> THEN "score" ELSE "steps"
                 /\ UNCHANGED result
            ELSE IF tenant.cross_account_role_arn = ""
            THEN /\ result' = ErrorResult(<<"Cross-account role not configured for tenant ",
                                            tenant.tenant_id>>)
                 /\ pc' = "done"
                 /\ UNCHANGED <<session, idx>>
            ELSE /\ session' = [kind |-> "assumed", role |-> tenant.cross_account_role_arn]
                 /\ idx' = 1
                 /\ pc' = IF rule.validation_steps = <<>> THEN "score" ELSE "steps"
                 /\ UNCHANGED result
    /\ UNCHANGED <<ksi, rules_table, overrides_table, tenant, run, rule, parameters, step_results,
                   calls, attempts, scored, prev, replay, fnVars, trigVars, tvVars, adminVars>>

\* LoopStep over the steps sorted by step_id: the step with the i-th smallest
\* step_id
LoopStepSorted(steps, i) ==
    CHOOSE s \in {steps[j] : j \in 1..Len(steps)} :
        Cardinality({j \in 1..Len(steps) : steps[j].step_id < s.step_id}) = i - 1

\* the step of the i-th iteration of 'for step in rule['validation_steps']'
LoopStep(steps, i) == steps[i]

\* step 5: one iteration of the loop over rule['validation_steps']
ExecuteStep ==
    /\ pc = "steps"
    /\ LET step == LoopStep(rule.validation_steps, idx)
           sentinel == HasSentinel(step.parameters)
           n == Len(calls) + 1
       IN  \E listing \in (IF sentinel THEN EnvAnswers(n, "cloudtrail", "describe_trails")
                           ELSE {NoAnswer}) :
           \E main \in (IF \/ sentinel /\ (~listing.ok \/ listing.result.trailList = <<>>)
                           \/ ~ReachesRemote(step.service, step.action, step.parameters)
                        THEN {NoAnswer}
                        ELSE EnvAnswers(IF sentinel THEN n + 1 ELSE n,
                                        step.service, step.action)) :
             LET out == execute_validation_step(step, session, parameters, listing, main)
                 last == idx = Len(rule.validation_steps)
             IN  /\ calls' = calls \o out.made
                 /\ attempts' = Append(attempts,
                        [index |-> idx, step_id |-> step.step_id, raised |-> out.raised,
                         error |-> IF out.raised THEN out.error ELSE ""])
                 /\ IF ~out.raised
                    THEN /\ step_results' = OrderedSet(step_results, StepKey(step), out.value)
                         /\ idx' = idx + 1
                         /\ pc' = IF last THEN "score" ELSE "steps"
                         /\ UNCHANGED result
                    ELSE IF AbortsRun(step)
                    THEN /\ result' = CriticalResult(step, out.error, step_results)
                         /\ pc' = "done"
                         /\ UNCHANGED <<step_results, idx>>
                    ELSE /\ step_results' = AbsorbFailure(step_results, step, out.error)
                         /\ idx' = idx + 1
                         /\ pc' = IF last THEN "score" ELSE "steps"
                         /\ UNCHANGED result
    /\ UNCHANGED <<ksi, rules_table, overrides_table, tenant, run, rule, parameters, session,
                   env, scored, prev, replay, fnVars, trigVars, tvVars, adminVars>>

\* Score with the status drawn at random, as trigger_ksi_validation draws
\* its assertion
ScoreSimulated ==
    /\ pc = "score"
    /\ IF "scoring_rules" \notin DOMAIN rule
       THEN /\ result' = ErrorResult("'scoring_rules'")
            /\ UNCHANGED scored
       ELSE /\ \E status \in {"PASS", "FAIL"} :
                 result' = [ScoredResult(calculate_ksi_score(step_results, rule.scoring_rules,
                                                             parameters))
                            EXCEPT !.status = status]
            /\ scored' = scored + 1
    /\ pc' = "done"
    /\ UNCHANGED <<ksi, rules_table, overrides_table, tenant, run, rule, parameters, session,
                   idx, step_results, calls, attempts, env, prev, replay, fnVars, trigVars, tvVars, adminVars>>

\* Score without the outer 'except Exception': the KeyError of a rule without
\* scoring_rules leaves the call as an exception
ScoreUncaught ==
    /\ pc = "score"
    /\ IF "scoring_rules" \notin DOMAIN rule
       THEN /\ result' = [ksi_id |-> ksi, status |-> "RAISED", error |-> "'scoring_rules'"]
            /\ UNCHANGED scored
       ELSE /\ result' = ScoredResult(calculate_ksi_score(step_results, rule.scoring_rules,
                                                         parameters))
            /\ scored' = scored + 1
    /\ pc' = "done"
    /\ UNCHANGED <<ksi, rules_table, overrides_table, tenant, run, rule, parameters, session,
                   idx, step_results, calls, attempts, env, prev, replay, fnVars, trigVars,
                   tvVars, adminVars>>

\* steps 6-7: calculate_ksi_score and the result built from it
Score ==
    /\ pc = "score"
    /\ IF "scoring_rules" \notin DOMAIN rule
       THEN /\ result' = ErrorResult("'scoring_rules'")
            /\ UNCHANGED scored
       ELSE /\ result' = ScoredResult(calculate_ksi_score(step_results, rule.scoring_rules,
                                                         parameters))
            /\ scored' = scored + 1
    /\ pc' = "done"
    /\ UNCHANGED <<ksi, rules_table, overrides_table, tenant, run, rule, parameters, session,
                   idx, step_results, calls, attempts, env, prev, replay, fnVars, trigVars, tvVars, adminVars>>

\* a second call of execute_ksi_validation on the same stored data, to which
\* the stores and the remote side answer as they did to the first
Rerun ==
    /\ pc = "done"
    /\ run = 1
    /\ run' = 2
    /\ prev' = result
    /\ replay' = [env |-> env, calls |-> calls, swapped |-> {}]
    /\ pc' = "start"
    /\ rule' = None
    /\ parameters' = EmptyDict
    /\ session' = None
    /\ idx' = 0
    /\ step_results' = <<>>
    /\ result' = NoResult
    /\ calls' = <<>>
    /\ attempts' = <<>>
    /\ env' = NoEnv
    /\ scored' = 0
    /\ UNCHANGED <<ksi, rules_table, overrides_table, tenant, fnVars, trigVars, tvVars, adminVars>>

\* execute_ksi_validation has just been called
Init ==
    /\ rules_table \in EngineRuleTables
    /\ \E setup \in TenantSetups(<<KsiId, VersionStr(1, 0)>>) :
         /\ tenant = setup.tenant
         /\ overrides_table = setup.overrides
    /\ ksi = KsiId
    /\ run = 1
    /\ pc = "start"
    /\ rule = None
    /\ parameters = EmptyDict
    /\ session = None
    /\ idx = 0
    /\ step_results = <<>>
    /\ result = NoResult
    /\ calls = <<>>
    /\ attempts = <<>>
    /\ env = NoEnv
    /\ scored = 0
    /\ prev = NoResult
    /\ replay = NoReplay
    /\ call = NoCall
    /\ ret = NotReturned
    /\ t_request = NoRequest
    /\ t_rules = <<>>
    /\ t_run = 1
    /\ t_pc = "idle"
    /\ t_available = <<>>
    /\ t_i = 0
    /\ t_results = <<>>
    /\ t_executions = <<>>
    /\ t_response = NoResponse
    /\ t_first = <<>>
    /\ TenantIdle
    /\ AdminIdle

Next == ResolveRule \/ AssumeRole \/ ExecuteStep \/ Score

Spec == Init /\ [][Next]_vars

NextDet == Next \/ Rerun

SpecDet == Init /\ [][NextDet]_vars

-----------------------------------------------------------------------------
(* Properties of the step loop of execute_ksi_validation *)

\* the step the loop ran at position i of validation_steps
StepAt(i) == rule.validation_steps[i]

\* the positions at which a step with failure_action 'fail_ksi' raised
CriticalFailures ==
    {i \in 1..Len(attempts) : attempts[i].raised /\ StepAt(i).failure_action = "fail_ksi"}

\* the positions at which a step with another failure_action raised
AbsorbedFailures ==
    {i \in 1..Len(attempts) : attempts[i].raised /\ StepAt(i).failure_action # "fail_ksi"}

\* the keys of an insertion-ordered dict
KeysOf(d) == {d[i].key : i \in 1..Len(d)}

\* the value stored under a key of an insertion-ordered dict
ValueAt(d, key) == (CHOOSE e \in {d[i] : i \in 1..Len(d)} : e.key = key).value

\* C1: when a step whose failure_action is 'fail_ksi' raised, the call has
\* returned; that step is the last one run and no remote call was made for a
\* later step, although the rule may hold further steps; calculate_ksi_score
\* was not called; the result has status FAIL and no score.
C1_AbortStopsLoop ==
    \A i \in CriticalFailures :
        /\ pc = "done"
        /\ i = Len(attempts)
        /\ \A c \in 1..Len(calls) : \E j \in 1..i : calls[c].step_id = StepAt(j).step_id
        /\ scored = 0
        /\ result.status = "FAIL"
        /\ "score" \notin DOMAIN result

\* C1 witness: the first of two steps is 'fail_ksi' and raised
C1_Witness ==
    /\ pc = "done"
    /\ CriticalFailures = {1}
    /\ Len(rule.validation_steps) = MaxSteps

SucceededMetricNames ==
    UNION {DOMAIN extract_metrics(StepAt(i).service, StepAt(i).action, EmptyDict) :
            i \in {i \in 1..Len(attempts) : ~attempts[i].raised}}

-----------------------------------------------------------------------------
(* Direct calls of the pure functions, on inputs drawn from bounded sets *)

\* the operators of the criteria: the six evaluate_criterion knows and one
\* it does not
CriterionOperators == KnownOperators \cup {"contains"}

\* the weights of the criteria: 0.4 and 0.6
CriterionWeights == {Rat(4, 10), Rat(6, 10)}

\* the pass_criteria lists: up to MaxCriteria criteria on trail_count with
\* threshold 1
CriteriaLists ==
    UNION {[1..n -> {Criterion("trail_count", op, 1, w) :
                        op \in CriterionOperators, w \in CriterionWeights}] :
           n \in 0..MaxCriteria}

\* the scoring_rules: with minimum_score 0.5, or without one
ScoringRules ==
    {[pass_criteria |-> c, minimum_score |-> Rat(5, 10)] : c \in CriteriaLists}
    \cup {[pass_criteria |-> c] : c \in CriteriaLists}

\* a step_results entry of a step that succeeded
Succeeded(id, metrics) ==
    [key |-> <<"step_", id>>,
     value |-> [isdict |-> TRUE, success |-> TRUE, metrics |-> metrics,
                raw_result_summary |-> <<"ok">>]]

\* a step_results entry of a 'warn' step that raised
Warned(id) ==
    [key |-> <<"step_", id, "_error">>,
     value |-> [isdict |-> FALSE, text |-> "AccessDeniedException"]]

\* the step_results given to calculate_ksi_score: no step produced
\* trail_count, or the last step that succeeded produced it
ScoredStepResults ==
    {<<>>, <<Warned(1)>>, <<Succeeded(1, [kms_key_count |-> MaxMetric])>>}
    \cup {<<Succeeded(1, [trail_count |-> v])>> : v \in 0..MaxMetric}
    \cup {<<Succeeded(1, [trail_count |-> MaxMetric - v]), Warned(2),
            Succeeded(3, [trail_count |-> v, kms_key_count |-> 1])>> : v \in 0..MaxMetric}

ParameterNames == {"min_trail_count", "min_log_groups"}
OverrideNames == ParameterNames \cup {"max_age_days"}

\* the configurable_parameters given to merge_parameters
DeclaredParameters ==
    UNION {[names -> {[default |-> d, description |-> "declared"] : d \in {1, 3}}] :
           names \in SUBSET ParameterNames}

\* the custom_parameters given to merge_parameters
CustomParameters ==
    UNION {[names -> {5, 7}] : names \in SUBSET OverrideNames}

KsiIds == {"KSI-MLA-01", "KSI-CNA-01"}

\* the major version numbers of the stored rule versions
VersionMajors == {1, 9, 10}

\* one stored version of a rule, with only the fields get_active_rule reads
RuleVersion(ksi_id, major, status) ==
    [rule_id |-> <<ksi_id, VersionStr(major, 0)>>, ksi_id |-> ksi_id,
     version |-> VersionStr(major, 0), status |-> status]

\* the rules tables given to get_active_rule: up to MaxVersions items with
\* distinct rule_id (the table's key)
VersionTables ==
    UNION {{t \in [1..n -> {RuleVersion(k, m, st) :
                    k \in KsiIds, m \in VersionMajors, st \in {"active", "inactive"}}] :
                \A i, j \in 1..n : i # j => t[i].rule_id # t[j].rule_id} :
           n \in 0..MaxVersions}

FnCalls ==
    {[fn |-> "calculate_ksi_score", step_results |-> sr, scoring_rules |-> sc,
      parameters |-> EmptyDict] : sr \in ScoredStepResults, sc \in ScoringRules}
    \cup {[fn |-> "merge_parameters", default_params |-> d, tenant_overrides |-> o] :
            d \in DeclaredParameters, o \in CustomParameters}
    \cup {[fn |-> "get_active_rule", table |-> t, ksi_id |-> "KSI-MLA-01"] :
            t \in VersionTables}

Returned(value) == [returned |-> TRUE, value |-> value]

CallCalculateKsiScore ==
    /\ call.fn = "calculate_ksi_score"
    /\ ~ret.returned
    /\ ret' = Returned(calculate_ksi_score(call.step_results, call.scoring_rules,
                                           call.parameters))
    /\ UNCHANGED <<call, engineVars, trigVars, tvVars, adminVars>>

CallMergeParameters ==
    /\ call.fn = "merge_parameters"
    /\ ~ret.returned
    /\ ret' = Returned(merge_parameters(call.default_params, call.tenant_overrides))
    /\ UNCHANGED <<call, engineVars, trigVars, tvVars, adminVars>>

\* the table query either answers or raises
CallGetActiveRule ==
    /\ call.fn = "get_active_rule"
    /\ ~ret.returned
    /\ \E query_ok \in BOOLEAN :
         ret' = [returned |-> TRUE, query_ok |-> query_ok,
                 value |-> get_active_rule(call.table, call.ksi_id, query_ok)]
    /\ UNCHANGED <<call, engineVars, trigVars, tvVars, adminVars>>

InitFn ==
    /\ call \in FnCalls
    /\ ret = NotReturned
    /\ rules_table = <<>>
    /\ overrides_table = NoOverrides
    /\ tenant = OwnTenant
    /\ ksi = KsiId
    /\ run = 1
    /\ pc = "idle"
    /\ rule = None
    /\ parameters = EmptyDict
    /\ session = None
    /\ idx = 0
    /\ step_results = <<>>
    /\ result = NoResult
    /\ calls = <<>>
    /\ attempts = <<>>
    /\ env = NoEnv
    /\ scored = 0
    /\ prev = NoResult
    /\ replay = NoReplay
    /\ t_request = NoRequest
    /\ t_rules = <<>>
    /\ t_run = 1
    /\ t_pc = "idle"
    /\ t_available = <<>>
    /\ t_i = 0
    /\ t_results = <<>>
    /\ t_executions = <<>>
    /\ t_response = NoResponse
    /\ t_first = <<>>
    /\ TenantIdle
    /\ AdminIdle

NextFn == CallCalculateKsiScore \/ CallMergeParameters \/ CallGetActiveRule

SpecFn == InitFn /\ [][NextFn]_vars

-----------------------------------------------------------------------------
(* Properties of calculate_ksi_score, merge_parameters and get_active_rule *)

ScoreReturned == call.fn = "calculate_ksi_score" /\ ret.returned

\* the metric of a name that the step results accumulate: the one of the
\* last step that succeeded and produced it, 0 when there is none
AccumulatedMetric(results, name) ==
    LET producers == {i \in 1..Len(results) :
                        /\ results[i].value.isdict
                        /\ name \in DOMAIN results[i].value.metrics}
    IN  IF producers = {} THEN 0
        ELSE results[CHOOSE i \in producers : \A j \in producers : j <= i].value.metrics[name]

\* a weight in tenths
Tenths(w) == (w.num * 10) \div w.den

RECURSIVE SumTenths(_, _)
\* the sum, in tenths, of the weights of the criteria at the positions in S
SumTenths(criteria, S) ==
    IF S = {} THEN 0
    ELSE LET i == CHOOSE i \in S : TRUE
         IN  Tenths(criteria[i].weight) + SumTenths(criteria, S \ {i})

\* the positions of the criteria that pass on the accumulated metrics
PassedCriteria(results, criteria) ==
    {i \in 1..Len(criteria) :
        evaluate_criterion(AccumulatedMetric(results, criteria[i].metric),
                           criteria[i].operator, criteria[i].value)}

\* C4: the score calculate_ksi_score returns is the sum of the weights of the
\* criteria that passed over the sum of the weights of all criteria when that
\* total is positive, and 0 otherwise, a criterion's actual value being the
\* accumulated metric of its name or 0; the status is PASS exactly when the
\* score is at least minimum_score (0.7 when the rule gives none), else FAIL.
C4_ScoreIsWeightedShare ==
    ScoreReturned =>
        LET criteria == call.scoring_rules.pass_criteria
            total == SumTenths(criteria, 1..Len(criteria))
            achieved == SumTenths(criteria, PassedCriteria(call.step_results, criteria))
            score == ret.value.score
            minimum == IF "minimum_score" \in DOMAIN call.scoring_rules
                       THEN call.scoring_rules.minimum_score
                       ELSE [num |-> 7, den |-> 10]
        IN  /\ score.den > 0
            /\ total > 0 => score.num * total = achieved * score.den
            /\ total = 0 => score.num = 0
            /\ ret.value.status = (IF score.num * minimum.den >= minimum.num * score.den
                                   THEN "PASS" ELSE "FAIL")

\* C4 witness: weight 0.6 passed and weight 0.4 failed give score 0.6, which
\* is PASS at minimum_score 0.5
C4_Witness ==
    /\ ScoreReturned
    /\ Len(call.scoring_rules.pass_criteria) = 2
    /\ call.scoring_rules.pass_criteria[1].weight = Rat(6, 10)
    /\ call.scoring_rules.pass_criteria[2].weight = Rat(4, 10)
    /\ PassedCriteria(call.step_results, call.scoring_rules.pass_criteria) = {1}
    /\ "minimum_score" \in DOMAIN call.scoring_rules
    /\ call.scoring_rules.minimum_score = Rat(5, 10)
    /\ ret.value.score = Rat(6, 10)
    /\ ret.value.status = "PASS"

\* the positions of the criteria whose operator evaluate_criterion does not know
UnknownCriteria(criteria) ==
    {i \in 1..Len(criteria) : criteria[i].operator \notin KnownOperators}

\* C5: evaluate_criterion returns not-passed for an operator it does not know,
\* whatever the actual value and the threshold; calculate_ksi_score reports
\* such a criterion as failed and still counts its weight in the total, so the
\* score is at most the share of the other criteria's weights.
C5_UnknownOperatorFails ==
    /\ \A op \in {"contains", "=>", "=", ""} : \A actual, expected \in 0..MaxMetric :
         ~evaluate_criterion(actual, op, expected)
    /\ ScoreReturned =>
        LET criteria == call.scoring_rules.pass_criteria
            unknown == UnknownCriteria(criteria)
            total == SumTenths(criteria, 1..Len(criteria))
            score == ret.value.score
        IN  /\ Len(ret.value.findings) = Len(criteria)
            /\ \A i \in unknown : ~ret.value.findings[i].passed
            /\ score.num * total <= (total - SumTenths(criteria, unknown)) * score.den
            /\ unknown # {} => score.num < score.den

\* C5 witness: one criterion passes and the other has an unknown operator
C5_Witness ==
    /\ ScoreReturned
    /\ Len(call.scoring_rules.pass_criteria) = 2
    /\ UnknownCriteria(call.scoring_rules.pass_criteria) = {2}
    /\ ret.value.findings[1].passed
    /\ ret.value.score = Rat(6, 10)

\* C6: the score calculate_ksi_score returns lies in [0, 1], and is 0 when
\* there are no criteria (total weight 0).
C6_ScoreInUnitInterval ==
    ScoreReturned =>
        /\ ret.value.score.den > 0
        /\ 0 <= ret.value.score.num
        /\ ret.value.score.num <= ret.value.score.den
        /\ call.scoring_rules.pass_criteria = <<>> => ret.value.score = RatZero

\* C6 witnesses: every criterion passed (score 1), and no criteria (score 0)
C6_Witness ==
    /\ ScoreReturned
    /\ Len(call.scoring_rules.pass_criteria) = MaxCriteria
    /\ ret.value.score = RatOne

MergeReturned == call.fn = "merge_parameters" /\ ret.returned

\* C9: merge_parameters returns a mapping whose keys are exactly the declared
\* names; a name maps to the override's value when the override holds it and
\* to the declared default otherwise; override names that are not declared
\* are dropped and change nothing.
C9_MergeParameters ==
    MergeReturned =>
        LET declared == call.default_params
            custom == call.tenant_overrides
            known == [n \in DOMAIN custom \cap DOMAIN declared |-> custom[n]]
        IN  /\ DOMAIN ret.value = DOMAIN declared
            /\ \A n \in DOMAIN declared :
                 ret.value[n] = IF n \in DOMAIN custom THEN custom[n] ELSE declared[n].default
            /\ ret.value = merge_parameters(declared, known)

\* C9 witness: one declared name is overridden, the other keeps its default,
\* and the override names an undeclared parameter
C9_Witness ==
    /\ MergeReturned
    /\ DOMAIN call.default_params = ParameterNames
    /\ DOMAIN call.tenant_overrides = {"min_trail_count", "max_age_days"}
    /\ ret.value["min_trail_count"] = 5
    /\ ret.value["min_log_groups"] = 1

RuleReturned == call.fn = "get_active_rule" /\ ret.returned

\* the number a version string "<major>.0" denotes
VersionNumber(version) == CHOOSE m \in VersionMajors : VersionStr(m, 0) = version

\* the stored versions of the asked KSI that are active
ActiveVersions ==
    {call.table[i] : i \in {i \in 1..Len(call.table) :
        call.table[i].ksi_id = call.ksi_id /\ call.table[i].status = "active"}}

\* C10: when the table answers, get_active_rule returns the active version of
\* the KSI with the highest version number, and None when no version of the
\* KSI is active; it never returns an inactive version.
C10_HighestActiveVersion ==
    (RuleReturned /\ ret.query_ok) =>
        IF ActiveVersions = {} THEN ret.value = None
        ELSE /\ ret.value \in ActiveVersions
             /\ \A r \in ActiveVersions :
                  VersionNumber(r.version) <= VersionNumber(ret.value.version)

-----------------------------------------------------------------------------
(* Repeated runs of execute_ksi_validation *)

\* the status, score and findings of a result; a result without a score or
\* without findings has the empty tuple there
Verdict(r) ==
    [status |-> r.status,
     score |-> IF "score" \in DOMAIN r THEN <<r.score>> ELSE <<>>,
     findings |-> IF "findings" \in DOMAIN r THEN <<r.findings>> ELSE <<>>]

-----------------------------------------------------------------------------
(* trigger_ksi_validation (lambda/handler.py; deployfixed.py holds the same  *)
(* function without the ksi_categories filter)                              *)

\* x in list
InList(x, list) == \E i \in 1..Len(list) : list[i] = x

\* the items of the rules table, with the fields trigger_ksi_validation reads
StoredRule(ksi_id, rule_id, category, steps) ==
    [rule_id |-> rule_id, ksi_id |-> ksi_id, category |-> category,
     title |-> ksi_id, validation_steps |-> steps]

TriggerRuleTables ==
    LET mla == StoredRule("KSI-MLA-01", "KSI-MLA-01-v1.0",
                          "Monitoring, Logging & Alerting", <<"s1", "s2">>)
        iam == StoredRule("KSI-IAM-01", "KSI-IAM-01-v1.0",
                          "Identity and Access Management", <<"s1">>)
    IN  {<<>>, <<mla>>, <<mla, iam>>}

TriggerRequests ==
    {[trigger_source |-> "scheduler"],
     [tenant_id |-> TenantId],
     [tenant_id |-> TenantId, ksi_filter |-> <<"KSI-MLA-01">>],
     [tenant_id |-> TenantId, ksi_filter |-> <<"KSI-MLA-01">>, validate_all |-> TRUE],
     [tenant_id |-> TenantId, ksi_categories |-> <<"Identity and Access Management">>]}

\* the values random.choice([True, True, True, False]) can return
SimulatedAssertions == {TRUE, FALSE}

\* the filters of trigger_ksi_validation on the scanned rules
FilterKsis(items, request) ==
    LET ksi_filter == DictGet(request, "ksi_filter", <<>>)
        validate_all == DictGet(request, "validate_all", FALSE)
        ksi_categories == DictGet(request, "ksi_categories", <<>>)
        by_id == IF ksi_filter # <<>> /\ ~validate_all
                 THEN SelectSeq(items, LAMBDA k : InList(k.ksi_id, ksi_filter)
                                                  \/ InList(k.rule_id, ksi_filter))
                 ELSE items
    IN  IF ksi_categories # <<>>
        THEN SelectSeq(by_id, LAMBDA k : InList(k.category, ksi_categories))
        ELSE by_id

\* the execution_id of a call: made from the clock and a uuid, so new each call
ExecutionId == <<"exec-", t_run>>

\* the result record of one KSI
KsiResult(ksi_rule, assertion) ==
    [ksi_id |-> ksi_rule.ksi_id, execution_id |-> ExecutionId,
     tenant_id |-> t_request.tenant_id, assertion |-> assertion,
     assertion_reason |-> <<ksi_rule.title,
                            IF assertion THEN " validation passed" ELSE " validation failed">>,
     commands_executed |-> Len(ksi_rule.validation_steps),
     successful_commands |-> IF assertion THEN Len(ksi_rule.validation_steps) ELSE 0,
     failed_commands |-> IF assertion THEN 0 ELSE Len(ksi_rule.validation_steps),
     category |-> ksi_rule.category, record_type |-> "result"]

\* trigger_ksi_validation up to its loop: the request is read, the rules are
\* scanned and filtered and the execution summary is stored
TriggerStart ==
    /\ t_pc = "start"
    /\ IF "tenant_id" \notin DOMAIN t_request
       THEN /\ t_response' = [statusCode |-> 400, error |-> "tenant_id is required"]
            /\ t_pc' = "done"
            /\ UNCHANGED <<t_available, t_i, t_results, t_executions>>
       ELSE \E scan_ok \in BOOLEAN :
            LET available_ksis == FilterKsis(t_rules, t_request)
            IN  IF ~scan_ok
                THEN /\ t_response' = [statusCode |-> 500, error |-> "Validation failed"]
                     /\ t_pc' = "done"
                     /\ UNCHANGED <<t_available, t_i, t_results, t_executions>>
                ELSE IF available_ksis = <<>>
                THEN /\ t_response' = [statusCode |-> 400,
                                       error |-> "No KSI rules found to validate"]
                     /\ t_pc' = "done"
                     /\ UNCHANGED <<t_available, t_i, t_results, t_executions>>
                ELSE /\ t_executions' = Append(t_executions,
                            [execution_id |-> ExecutionId, tenant_id |-> t_request.tenant_id,
                             trigger_source |-> DictGet(t_request, "trigger_source", "frontend"),
                             status |-> "completed", ksis_validated |-> Len(available_ksis),
                             record_type |-> "execution_summary"])
                     /\ t_available' = available_ksis
                     /\ t_i' = 1
                     /\ t_results' = <<>>
                     /\ t_pc' = "loop"
                     /\ UNCHANGED t_response
    /\ UNCHANGED <<t_request, t_rules, t_run, t_first, engineVars, fnVars, tvVars, adminVars>>

\* one iteration of the loop over available_ksis: the assertion is drawn at
\* random and the result is stored
TriggerValidateKsi ==
    /\ t_pc = "loop"
    /\ \E assertion \in SimulatedAssertions :
         LET r == KsiResult(t_available[t_i], assertion)
         IN  /\ t_executions' = Append(t_executions, r)
             /\ t_results' = Append(t_results, r)
    /\ t_i' = t_i + 1
    /\ t_pc' = IF t_i = Len(t_available) THEN "return" ELSE "loop"
    /\ UNCHANGED <<t_request, t_rules, t_run, t_available, t_response, t_first,
                   engineVars, fnVars, tvVars, adminVars>>

\* the response after the loop
TriggerReturn ==
    /\ t_pc = "return"
    /\ t_response' = [statusCode |-> 200, status |-> "success",
                      execution_id |-> ExecutionId, tenant_id |-> t_request.tenant_id,
                      ksis_validated |-> Len(t_results), validation_results |-> t_results]
    /\ t_pc' = "done"
    /\ UNCHANGED <<t_request, t_rules, t_run, t_available, t_i, t_results, t_executions,
                   t_first, engineVars, fnVars, tvVars, adminVars>>

\* a second call of trigger_ksi_validation with the same request on the same
\* stored rules
TriggerAgain ==
    /\ t_pc = "done"
    /\ t_run = 1
    /\ t_run' = 2
    /\ t_first' = t_results
    /\ t_pc' = "start"
    /\ t_available' = <<>>
    /\ t_i' = 0
    /\ t_results' = <<>>
    /\ t_response' = NoResponse
    /\ UNCHANGED <<t_request, t_rules, t_executions, engineVars, fnVars, tvVars, adminVars>>

InitTrigger ==
    /\ t_request \in TriggerRequests
    /\ t_rules \in TriggerRuleTables
    /\ t_run = 1
    /\ t_pc = "start"
    /\ t_available = <<>>
    /\ t_i = 0
    /\ t_results = <<>>
    /\ t_executions = <<>>
    /\ t_response = NoResponse
    /\ t_first = <<>>
    /\ TenantIdle
    /\ AdminIdle
    /\ call = NoCall
    /\ ret = NotReturned
    /\ rules_table = <<>>
    /\ overrides_table = NoOverrides
    /\ tenant = OwnTenant
    /\ ksi = KsiId
    /\ run = 1
    /\ pc = "idle"
    /\ rule = None
    /\ parameters = EmptyDict
    /\ session = None
    /\ idx = 0
    /\ step_results = <<>>
    /\ result = NoResult
    /\ calls = <<>>
    /\ attempts = <<>>
    /\ env = NoEnv
    /\ scored = 0
    /\ prev = NoResult
    /\ replay = NoReplay

NextTrigger == TriggerStart \/ TriggerValidateKsi \/ TriggerReturn \/ TriggerAgain

SpecTrigger == InitTrigger /\ [][NextTrigger]_vars

\* the KSIs a call of trigger_ksi_validation validated, each with the
\* assertion recorded for it
Assertions(results) ==
    [i \in 1..Len(results) |-> <<results[i].ksi_id, results[i].assertion>>]

\* C8: given the same stored rules and the same request, a second run of
\* trigger_ksi_validation records for each KSI the assertion the first run
\* recorded.
C8_SameAssertionEveryRun ==
    (t_run = 2 /\ t_pc = "done") => Assertions(t_results) = Assertions(t_first)

-----------------------------------------------------------------------------
(* The outcomes of execute_ksi_validation *)

\* the failures a call has met so far: of the role exchange, of a step, of
\* the scoring step
CredentialFailed ==
    pc = "done" /\ rule # None /\ attempts = <<>> /\ scored = 0 /\ session = None
StepFailed == \E i \in 1..Len(attempts) : attempts[i].raised
ScoringFailed ==
    /\ pc = "done"
    /\ rule # None
    /\ "scoring_rules" \notin DOMAIN rule
    /\ session # None
    /\ CriticalFailures = {}

\* C11: whatever failed in a call of execute_ksi_validation (the role
\* exchange, a step under any failure_action, the scoring step), the call goes
\* on (it stands at one of its steps, which can be taken) until it returns, and
\* what it returns is a result for the ksi_id it was given whose status is
\* PASS, FAIL or ERROR; nothing leaves it as an exception.
C11_AlwaysReturnsResult ==
    /\ pc # "done" =>
         /\ result = NoResult
         /\ pc \in {"start", "assume", "steps", "score"}
         /\ pc = "steps" => idx \in 1..Len(rule.validation_steps)
    /\ pc = "done" =>
         /\ result.status \in {"PASS", "FAIL", "ERROR"}
         /\ result.ksi_id = ksi
         /\ (CredentialFailed \/ ScoringFailed) => result.status = "ERROR"

\* C11 witness: a 'warn' step and an 'ignore' step raised, and then the
\* scoring step raised because the rule holds no scoring_rules
C11_Witness ==
    /\ ScoringFailed
    /\ result.status = "ERROR"
    /\ \E i, j \in AbsorbedFailures :
         StepAt(i).failure_action = "warn" /\ StepAt(j).failure_action = "ignore"

\* the rules table holds no item of the ksi_id with status 'active'
NoActiveRule ==
    ~\E i \in 1..Len(rules_table) :
        rules_table[i].ksi_id = ksi /\ rules_table[i].status = "active"

\* C12 as stated: when no active rule exists, the call ends without returning
\* a result (the failure reaches the caller as an exception), and no session
\* was acquired and no step run.
C12_AsStated ==
    (NoActiveRule /\ pc # "start") =>
        /\ pc = "done"
        /\ result.status \notin {"PASS", "FAIL", "ERROR"}
        /\ session = None
        /\ attempts = <<>>

\* C12 amended: when no active rule exists, the call returns at once a result
\* with status ERROR, the error 'No active validation rule found for <ksi_id>'
\* and rule_version 'unknown'; no session was acquired, no remote call made,
\* no step run and calculate_ksi_score not called.
C12_NoRuleIsError ==
    (NoActiveRule /\ pc # "start") =>
        /\ pc = "done"
        /\ result = [ksi_id |-> ksi, status |-> "ERROR",
                     error |-> <<"No active validation rule found for ", ksi>>,
                     rule_version |-> "unknown"]
        /\ session = None
        /\ calls = <<>>
        /\ attempts = <<>>
        /\ scored = 0

\* C12 witness: the table holds a rule of the ksi_id, which is inactive, and
\* the call has returned
C12_Witness ==
    /\ NoActiveRule
    /\ rules_table # <<>>
    /\ pc = "done"
    /\ result.status = "ERROR"

\* assume_role_for_tenant was called and raised: an STS call failed, or the
\* tenant is in another account and has no cross-account role
AssumeRoleRaised ==
    /\ pc \notin {"start", "assume"}
    /\ rule # None
    /\ \/ env.assume = "raise"
       \/ tenant.account_id # CurrentAccount /\ tenant.cross_account_role_arn = ""

\* C13: when assume_role_for_tenant raised, the call has returned a result
\* with status ERROR and without a score; no step was run, no remote call made
\* and calculate_ksi_score was not called.
C13_CredentialFailureIsError ==
    AssumeRoleRaised =>
        /\ pc = "done"
        /\ result.status = "ERROR"
        /\ "score" \notin DOMAIN result
        /\ session = None
        /\ attempts = <<>>
        /\ calls = <<>>
        /\ scored = 0

\* C13 witness: the tenant is in another account without a cross-account
\* role, the rule has steps, and the call has returned
C13_Witness ==
    /\ AssumeRoleRaised
    /\ env.assume = "ok"
    /\ tenant = UnconfiguredTenant
    /\ rule.validation_steps # <<>>
    /\ pc = "done"

\* the positions at which the step run names a (service, action) pair the
\* client does not have
UnsupportedAttempts ==
    {i \in 1..Len(attempts) : <<StepAt(i).service, StepAt(i).action>> \notin ClientMethods}

\* C14: a step that names a (service, action) pair the client does not have
\* fails and stops the run there with status FAIL and without scoring,
\* whatever its failure_action.
C14_UnsupportedAlwaysAborts ==
    \A i \in UnsupportedAttempts :
        /\ attempts[i].raised
        /\ pc = "done"
        /\ i = Len(attempts)
        /\ result.status = "FAIL"
        /\ scored = 0

-----------------------------------------------------------------------------
(* trigger_tenant_validation *)

\* the rules table trigger_tenant_validation runs on: empty, or one active
\* rule of KSI-MLA-01 with one step, with or without scoring_rules
TenantRuleTables ==
    LET scoring == CHOOSE s \in EngineScoring : "minimum_score" \in DOMAIN s
    IN  {<<>>,
         <<Rule(VersionStr(1, 0), "active",
                <<Step(1, <<"cloudtrail", "describe_trails", "fail_ksi">>)>>, scoring)>>,
         <<RuleWithoutScoring(VersionStr(1, 0), "active",
                <<Step(1, <<"cloudtrail", "describe_trails", "warn">>)>>)>>}

\* the lists a tenant's enabled_ksis is drawn from
EnabledKsis ==
    UNION {[1..n -> {KsiId, "KSI-CNA-01"}] : n \in 0..MaxKsis}

\* the tenants table: no item for the tenant, or its item with enabled_ksis
TenantsTables ==
    {EmptyDict} \cup
    {[k \in {TenantId} |->
        [tenant_id |-> t.tenant_id, account_id |-> t.account_id,
         cross_account_role_arn |-> t.cross_account_role_arn, enabled_ksis |-> e]] :
        t \in {OwnTenant, UnconfiguredTenant}, e \in EnabledKsis}

\* execution_id = str(uuid.uuid4()) and timestamp of the one call
TenantExecutionId == "uuid-1"
TenantTimestamp == "ts-1"

\* ExecutionRecord that leaves 'score' out when the result holds none
ExecutionRecordScoreOptional(execution_id, tenant_id, k, res, timestamp) ==
    LET rec == [execution_id |-> execution_id,
                tenant_id |-> tenant_id,
                timestamp |-> timestamp,
                ksi_id |-> k,
                status |-> res.status,
                findings |-> DictGet(res, "findings", <<>>),
                scores |-> DictGet(res, "scores", EmptyDict),
                rule_version |-> DictGet(res, "rule_version", "unknown"),
                error |-> DictGet(res, "error", "")]
    IN  IF "score" \in DOMAIN res
        THEN [f \in DOMAIN rec \cup {"score"} |-> IF f = "score" THEN res.score ELSE rec[f]]
        ELSE rec

\* ExecutionRecord with an id of its own for each ksi_id
ExecutionRecordOwnId(execution_id, tenant_id, k, res, timestamp) ==
    [execution_id |-> k,
     tenant_id |-> tenant_id,
     timestamp |-> timestamp,
     ksi_id |-> k,
     status |-> res.status,
     findings |-> DictGet(res, "findings", <<>>),
     scores |-> DictGet(res, "scores", EmptyDict),
     score |-> DictGet(res, "score", RatZero),
     rule_version |-> DictGet(res, "rule_version", "unknown"),
     error |-> DictGet(res, "error", "")]

\* the record save_execution_record builds from its arguments
ExecutionRecord(execution_id, tenant_id, k, res, timestamp) ==
    [execution_id |-> execution_id,
     tenant_id |-> tenant_id,
     timestamp |-> timestamp,
     ksi_id |-> k,
     status |-> res.status,
     findings |-> DictGet(res, "findings", <<>>),
     scores |-> DictGet(res, "scores", EmptyDict),
     score |-> DictGet(res, "score", RatZero),
     rule_version |-> DictGet(res, "rule_version", "unknown"),
     error |-> DictGet(res, "error", "")]

\* execute_ksi_validation(k, tenant) is called: its locals are fresh
EngineCalled(k) ==
    /\ ksi' = k
    /\ pc' = "start"
    /\ rule' = None
    /\ parameters' = EmptyDict
    /\ session' = None
    /\ idx' = 0
    /\ step_results' = <<>>
    /\ result' = NoResult
    /\ calls' = <<>>
    /\ attempts' = <<>>
    /\ env' = NoEnv
    /\ scored' = 0

\* no call of execute_ksi_validation is running
EngineIdle ==
    /\ pc' = "idle"
    /\ UNCHANGED <<ksi, rule, parameters, session, idx, step_results, result, calls,
                   attempts, env, scored>>

\* trigger_tenant_validation up to the first call of execute_ksi_validation:
\* the read of the tenant item and the test of enabled_ksis
TenantStart ==
    /\ tv_pc = "called"
    /\ \E get_ok \in BOOLEAN :
         IF ~get_ok \/ tv_tenant_id \notin DOMAIN tv_tenants
         THEN /\ tv_response' = [statusCode |-> 500]
              /\ tv_pc' = "returned"
              /\ EngineIdle
              /\ UNCHANGED <<tenant, tv_i>>
         ELSE LET item == tv_tenants[tv_tenant_id]
              IN  IF DictGet(item, "enabled_ksis", <<>>) = <<>>
                  THEN /\ tv_response' = [statusCode |-> 400,
                                          error |-> "No KSIs enabled for this tenant"]
                       /\ tv_pc' = "returned"
                       /\ EngineIdle
                       /\ UNCHANGED <<tenant, tv_i>>
                  ELSE /\ tenant' = item
                       /\ tv_i' = 1
                       /\ tv_pc' = "running"
                       /\ EngineCalled(item.enabled_ksis[1])
                       /\ UNCHANGED tv_response
    /\ UNCHANGED <<rules_table, overrides_table, run, prev, replay, tv_tenants, tv_tenant_id,
                   tv_results, tv_saves, tv_records, fnVars, trigVars, adminVars>>

\* TenantSave that stores no record for a run that ended with status ERROR
TenantSaveSkipErrors ==
    /\ tv_pc = "running"
    /\ pc = "done"
    /\ LET enabled_ksis == tenant.enabled_ksis
           record == ExecutionRecord(TenantExecutionId, tv_tenant_id, ksi, result,
                                     TenantTimestamp)
           saved == result.status # "ERROR"
       IN  /\ tv_results' = Append(tv_results, result)
           /\ tv_saves' = IF saved THEN Append(tv_saves, [ksi_id |-> ksi, result |-> result])
                          ELSE tv_saves
           /\ \E put_ok \in BOOLEAN :
                tv_records' = IF saved /\ put_ok THEN Append(tv_records, record)
                              ELSE tv_records
           /\ IF tv_i < Len(enabled_ksis)
              THEN /\ tv_i' = tv_i + 1
                   /\ EngineCalled(enabled_ksis[tv_i + 1])
                   /\ UNCHANGED <<tv_pc, tv_response>>
              ELSE /\ tv_response' = [statusCode |-> 202,
                                      execution_id |-> TenantExecutionId,
                                      results |-> tv_results',
                                      validated |-> Len(tv_results')]
                   /\ tv_pc' = "returned"
                   /\ EngineIdle
                   /\ UNCHANGED tv_i
    /\ UNCHANGED <<rules_table, overrides_table, tenant, run, prev, replay, tv_tenants,
                   tv_tenant_id, fnVars, trigVars, adminVars>>

\* the rest of one iteration of the loop over enabled_ksis, once
\* execute_ksi_validation has returned: results.append, save_execution_record
\* (which catches a failing put_item), and then the next iteration or the 202
\* response. execute_ksi_validation and save_execution_record do not raise, so
\* the 'except' clause of the loop is not taken.
TenantSave ==
    /\ tv_pc = "running"
    /\ pc = "done"
    /\ LET enabled_ksis == tenant.enabled_ksis
           record == ExecutionRecord(TenantExecutionId, tv_tenant_id, ksi, result,
                                     TenantTimestamp)
           saved == TRUE
       IN  /\ tv_results' = Append(tv_results, result)
           /\ tv_saves' = IF saved THEN Append(tv_saves, [ksi_id |-> ksi, result |-> result])
                          ELSE tv_saves
           /\ \E put_ok \in BOOLEAN :
                tv_records' = IF saved /\ put_ok THEN Append(tv_records, record)
                              ELSE tv_records
           /\ IF tv_i < Len(enabled_ksis)
              THEN /\ tv_i' = tv_i + 1
                   /\ EngineCalled(enabled_ksis[tv_i + 1])
                   /\ UNCHANGED <<tv_pc, tv_response>>
              ELSE /\ tv_response' = [statusCode |-> 202,
                                      execution_id |-> TenantExecutionId,
                                      results |-> tv_results',
                                      validated |-> Len(tv_results')]
                   /\ tv_pc' = "returned"
                   /\ EngineIdle
                   /\ UNCHANGED tv_i
    /\ UNCHANGED <<rules_table, overrides_table, tenant, run, prev, replay, tv_tenants,
                   tv_tenant_id, fnVars, trigVars, adminVars>>

\* trigger_tenant_validation has just been called
InitTenant ==
    /\ tv_tenants \in TenantsTables
    /\ tv_tenant_id = TenantId
    /\ tv_pc = "called"
    /\ tv_i = 0
    /\ tv_results = <<>>
    /\ tv_saves = <<>>
    /\ tv_records = <<>>
    /\ tv_response = [statusCode |-> 0]
    /\ rules_table \in TenantRuleTables
    /\ overrides_table = NoOverrides
    /\ tenant = None
    /\ ksi = ""
    /\ AdminIdle
    /\ run = 1
    /\ pc = "idle"
    /\ rule = None
    /\ parameters = EmptyDict
    /\ session = None
    /\ idx = 0
    /\ step_results = <<>>
    /\ result = NoResult
    /\ calls = <<>>
    /\ attempts = <<>>
    /\ env = NoEnv
    /\ scored = 0
    /\ prev = NoResult
    /\ replay = NoReplay
    /\ call = NoCall
    /\ ret = NotReturned
    /\ t_request = NoRequest
    /\ t_rules = <<>>
    /\ t_run = 1
    /\ t_pc = "idle"
    /\ t_available = <<>>
    /\ t_i = 0
    /\ t_results = <<>>
    /\ t_executions = <<>>
    /\ t_response = NoResponse
    /\ t_first = <<>>

NextTenant == TenantStart \/ ResolveRule \/ AssumeRole \/ ExecuteStep \/ Score \/ TenantSave

SpecTenant == InitTenant /\ [][NextTenant]_vars

\* C15: at every moment of trigger_tenant_validation, save_execution_record
\* has been called exactly once for each run of execute_ksi_validation that
\* has returned, in order, with the ksi_id and the result of that run; when
\* the 202 response is returned this is once for each entry of enabled_ksis,
\* whatever the status of its run.
C15_SavedOncePerRun ==
    /\ Len(tv_saves) = Len(tv_results)
    /\ tv_pc = "running" => Len(tv_saves) = tv_i - 1
    /\ \A i \in 1..Len(tv_saves) :
         /\ tv_saves[i].ksi_id = tenant.enabled_ksis[i]
         /\ tv_saves[i].result = tv_results[i]
         /\ tv_saves[i].result.status \in {"PASS", "FAIL", "ERROR"}
    /\ (tv_pc = "returned" /\ tv_response.statusCode = 202) =>
         Len(tv_saves) = Len(tenant.enabled_ksis)

\* C15 witness: two checks were run, one ended with status ERROR and one with
\* PASS or FAIL, and the 202 response was returned
C15_Witness ==
    /\ tv_pc = "returned"
    /\ tv_response.statusCode = 202
    /\ Len(tv_saves) = 2
    /\ \E i, j \in 1..2 :
         /\ tv_saves[i].result.status = "ERROR"
         /\ tv_saves[j].result.status \in {"PASS", "FAIL"}

\* a score that lies in [0, 1]
InUnitInterval(score) == RatLeq(RatZero, score) /\ RatLeq(score, RatOne)

\* C16 as stated: a result with status ERROR holds no score, the record
\* stored for it holds no score either, and every score a result holds lies
\* in [0, 1].
C16_AsStated ==
    /\ \A i \in 1..Len(tv_results) :
         /\ tv_results[i].status = "ERROR" => "score" \notin DOMAIN tv_results[i]
         /\ "score" \in DOMAIN tv_results[i] => InUnitInterval(tv_results[i].score)
    /\ \A j \in 1..Len(tv_records) :
         tv_records[j].status = "ERROR" => "score" \notin DOMAIN tv_records[j]

\* C16 amended: a result with status ERROR holds no score and every score a
\* result holds lies in [0, 1]; the record stored for a run always holds a
\* score, which is the result's score when it has one and 0 otherwise, so the
\* record of an ERROR run holds the score 0.
C16_ErrorRecordHoldsZero ==
    /\ \A i \in 1..Len(tv_results) :
         /\ tv_results[i].status = "ERROR" => "score" \notin DOMAIN tv_results[i]
         /\ "score" \in DOMAIN tv_results[i] => InUnitInterval(tv_results[i].score)
    /\ \A j \in 1..Len(tv_records) :
         /\ "score" \in DOMAIN tv_records[j]
         /\ tv_records[j].status = "ERROR" => tv_records[j].score = RatZero
         /\ \E i \in 1..Len(tv_saves) :
              /\ tv_saves[i].ksi_id = tv_records[j].ksi_id
              /\ tv_saves[i].result.status = tv_records[j].status
              /\ tv_records[j].score = IF "score" \in DOMAIN tv_saves[i].result
                                       THEN tv_saves[i].result.score
                                       ELSE RatZero

\* C16 witness: the records of a run that ended with ERROR and of a run that
\* was scored above 0 are both stored
C16_Witness ==
    \E i, j \in 1..Len(tv_records) :
        /\ tv_records[i].status = "ERROR"
        /\ tv_records[j].status \in {"PASS", "FAIL"}
        /\ RatLess(RatZero, tv_records[j].score)

\* the positions at which the step run raised in the host process before any
\* remote call was made: the client refused the stored parameters
HostExceptionAttempts ==
    {i \in 1..Len(attempts) :
        /\ attempts[i].raised
        /\ <<StepAt(i).service, StepAt(i).action>> \in ClientMethods
        /\ ~ReachesRemote(StepAt(i).service, StepAt(i).action, StepAt(i).parameters)}

\* C17: when a step raised an exception that is not a failure of its remote
\* call, the run ends there with status ERROR and without scoring, also when
\* the step's failure_action is 'warn' or 'ignore': the failure policy does
\* not absorb it.
C17_HostExceptionIsError ==
    \A i \in HostExceptionAttempts \cap AbsorbedFailures :
        /\ pc = "done"
        /\ i = Len(attempts)
        /\ result.status = "ERROR"
        /\ scored = 0

-----------------------------------------------------------------------------
(* The order in which the steps are run *)

\* the validation_steps lists with the step_ids 1..n stored in any order
OrderedStepLists ==
    UNION {{[i \in 1..n |-> Step(ids[i], <<"cloudtrail", "describe_trails", fa[i]>>)] :
              ids \in {p \in [1..n -> 1..n] : \A a, b \in 1..n : a # b => p[a] # p[b]},
              fa \in [1..n -> FailureActions]} :
           n \in 0..MaxSteps}

OrderRuleTables ==
    LET scoring == CHOOSE s \in EngineScoring : "minimum_score" \in DOMAIN s
    IN  {<<Rule(VersionStr(1, 0), "active", steps, scoring)>> : steps \in OrderedStepLists}

\* execute_ksi_validation has just been called for KSI-MLA-01; nothing else runs
CallStarted ==
    /\ ksi = KsiId
    /\ run = 1
    /\ pc = "start"
    /\ rule = None
    /\ parameters = EmptyDict
    /\ session = None
    /\ idx = 0
    /\ step_results = <<>>
    /\ result = NoResult
    /\ calls = <<>>
    /\ attempts = <<>>
    /\ env = NoEnv
    /\ scored = 0
    /\ prev = NoResult
    /\ replay = NoReplay
    /\ call = NoCall
    /\ ret = NotReturned
    /\ t_request = NoRequest
    /\ t_rules = <<>>
    /\ t_run = 1
    /\ t_pc = "idle"
    /\ t_available = <<>>
    /\ t_i = 0
    /\ t_results = <<>>
    /\ t_executions = <<>>
    /\ t_response = NoResponse
    /\ t_first = <<>>
    /\ TenantIdle
    /\ AdminIdle

InitOrder ==
    /\ rules_table \in OrderRuleTables
    /\ tenant = OwnTenant
    /\ overrides_table = NoOverrides
    /\ CallStarted

SpecOrder == InitOrder /\ [][Next]_vars

\* the step_ids of the steps run so far, in the order they were run
StepIdsRun == [i \in 1..Len(attempts) |-> attempts[i].step_id]

-----------------------------------------------------------------------------
(* The metrics that are scored *)

\* the positions at which the step run succeeded
SucceededAttempts == {i \in 1..Len(attempts) : ~attempts[i].raised}

\* the metrics extracted from the response the step at position i got
MetricsOf(i) ==
    LET made == CHOOSE c \in {calls[n] : n \in 1..Len(calls)} :
                    /\ c.step_id = attempts[i].step_id
                    /\ c.service = StepAt(i).service
                    /\ c.action = StepAt(i).action
    IN  extract_metrics(made.service, made.action, made.answer.result)

\* the last position at which a step succeeded and produced the metric
LastProducer(name) ==
    LET producers == {i \in SucceededAttempts : name \in DOMAIN MetricsOf(i)}
    IN  CHOOSE i \in producers : \A j \in producers : j <= i

\* C19: the metrics a scored run reports are those the steps that succeeded
\* produced, and each has the value from the last step that succeeded and
\* produced it: a later successful step overrides an earlier one, a step
\* that failed overrides nothing; the criterion of that metric is evaluated
\* on that value.
C19_LaterMetricWins ==
    (pc = "done" /\ scored = 1) =>
        /\ DOMAIN result.scores = UNION {DOMAIN MetricsOf(i) : i \in SucceededAttempts}
        /\ \A name \in DOMAIN result.scores :
             result.scores[name] = MetricsOf(LastProducer(name))[name]
        /\ \A n \in 1..Len(rule.scoring_rules.pass_criteria) :
             LET criterion == rule.scoring_rules.pass_criteria[n]
                 actual == IF criterion.metric \in DOMAIN result.scores
                           THEN MetricsOf(LastProducer(criterion.metric))[criterion.metric]
                           ELSE 0
             IN  result.findings[n].actual = actual

\* C19 witness: two steps succeeded and reported different trail counts, and
\* the run was scored
C19_Witness ==
    /\ pc = "done"
    /\ scored = 1
    /\ SucceededAttempts = {1, 2}
    /\ "trail_count" \in DOMAIN MetricsOf(1) \cap DOMAIN MetricsOf(2)
    /\ MetricsOf(1).trail_count > MetricsOf(2).trail_count

-----------------------------------------------------------------------------
(* The failure policies 'warn' and 'ignore' compared *)

\* the positions at which a step declared 'warn' raised
WarnedFailures == {i \in AbsorbedFailures : StepAt(i).failure_action = "warn"}

\* the rule with the steps at the given positions declared 'ignore'
DeclaredIgnore(r, positions) ==
    [r EXCEPT !.validation_steps =
        [i \in 1..Len(r.validation_steps) |->
            IF i \in positions
            THEN [r.validation_steps[i] EXCEPT !.failure_action = "ignore"]
            ELSE r.validation_steps[i]]]

\* a second call of execute_ksi_validation on stored data that differs only in
\* that the steps which raised under 'warn' in the first call are declared
\* 'ignore'; the stores and the remote side answer as they did to the first
RerunAsIgnore ==
    /\ pc = "done"
    /\ run = 1
    /\ rule # None
    /\ WarnedFailures # {}
    /\ run' = 2
    /\ prev' = result
    /\ replay' = [env |-> env, calls |-> calls,
                  swapped |-> {StepAt(i).step_id : i \in WarnedFailures}]
    /\ rules_table' = [n \in 1..Len(rules_table) |->
                         IF rules_table[n] = rule THEN DeclaredIgnore(rule, WarnedFailures)
                         ELSE rules_table[n]]
    /\ EngineCalled(ksi)
    /\ UNCHANGED <<overrides_table, tenant, fnVars, trigVars, tvVars, adminVars>>

NextPolicy == Next \/ RerunAsIgnore

SpecPolicy == Init /\ [][NextPolicy]_vars

\* the step_results of a result, empty when it holds none
StepResultsOf(r) == IF "step_results" \in DOMAIN r THEN r.step_results ELSE <<>>

\* an insertion-ordered dict without the step_<id>_error entries of the given ids
WithoutErrorsOf(d, ids) ==
    SelectSeq(d, LAMBDA e : ~\E id \in ids : e.key = <<"step_", id, "_error">>)

-----------------------------------------------------------------------------
(* Steps whose Name parameter is resolved from a listing *)

\* the kinds of step of the rules with a trail status check: the check
\* itself (get_trail_status, stored with the sentinel as Name) under each
\* failure_action, and the listing as a step of its own
SentinelKinds ==
    {<<"cloudtrail", "get_trail_status", fa>> : fa \in FailureActions}
    \cup {<<"cloudtrail", "describe_trails", "fail_ksi">>}

SentinelRuleTables ==
    LET scoring == CHOOSE s \in EngineScoring : "minimum_score" \in DOMAIN s
    IN  UNION {{<<Rule(VersionStr(1, 0), "active", [i \in 1..n |-> Step(i, kinds[i])],
                       scoring)>> : kinds \in [1..n -> SentinelKinds]} :
               n \in 1..MaxSteps}

InitSentinel ==
    /\ rules_table \in SentinelRuleTables
    /\ tenant = OwnTenant
    /\ overrides_table = NoOverrides
    /\ CallStarted

SpecSentinel == InitSentinel /\ [][Next]_vars

\* the positions of the steps run whose stored Name is the sentinel
SentinelAttempts == {i \in 1..Len(attempts) : HasSentinel(StepAt(i).parameters)}

\* the remote calls made for the step at position i, in the order made
CallsOf(i) == SelectSeq(calls, LAMBDA c : c.step_id = attempts[i].step_id)

\* C21: for a step whose Name is the sentinel, the first remote call is the
\* listing (cloudtrail describe_trails). When the listing returned trails, the
\* main call follows it and carries the first listed trail's name as Name.
\* When the listing is empty (or itself failed) no main call is made and the
\* step has failed, and the failure is treated by the step's failure_action as
\* any failed call is: 'fail_ksi' ends the run with FAIL at that step, 'warn'
\* records the message under the step's error key and goes on, 'ignore' goes
\* on with nothing recorded.
C21_SentinelResolved ==
    \A i \in SentinelAttempts :
        LET made == CallsOf(i)
            step == StepAt(i)
        IN  /\ Len(made) >= 1
            /\ made[1].service = "cloudtrail" /\ made[1].action = "describe_trails"
            /\ IF made[1].answer.ok /\ made[1].answer.result.trailList # <<>>
               THEN /\ Len(made) = 2
                    /\ made[2].service = step.service /\ made[2].action = step.action
                    /\ made[2].parameters =
                         [Name |-> made[1].answer.result.trailList[1].Name]
                    /\ attempts[i].raised = ~made[2].answer.ok
               ELSE /\ Len(made) = 1
                    /\ attempts[i].raised
                    /\ attempts[i].error = IF made[1].answer.ok
                                           THEN "No trails found for trail status check"
                                           ELSE made[1].answer.error
                    /\ StepKey(step) \notin KeysOf(step_results)
                    /\ step.failure_action = "fail_ksi" =>
                         /\ pc = "done"
                         /\ i = Len(attempts)
                         /\ result.status = "FAIL"
                         /\ result.error[4] = attempts[i].error
                         /\ scored = 0
                    /\ step.failure_action = "warn" =>
                         /\ StepErrorKey(step) \in KeysOf(step_results)
                         /\ ValueAt(step_results, StepErrorKey(step)) =
                                [isdict |-> FALSE, text |-> attempts[i].error]
                    /\ step.failure_action = "ignore" =>
                         StepErrorKey(step) \notin KeysOf(step_results)
                    /\ step.failure_action # "fail_ksi" =>
                         IF pc = "done" THEN scored = 1 \/ CriticalFailures # {i}
                         ELSE idx > i

\* C21 witness: a first trail status check met an empty listing under 'warn',
\* the run went on, and a second one was made for the trail listed first
C21_Witness ==
    /\ pc = "done"
    /\ SentinelAttempts = {1, 2}
    /\ StepAt(1).failure_action = "warn"
    /\ attempts[1].error = "No trails found for trail status check"
    /\ ~attempts[2].raised
    /\ Len(calls) = 3
    /\ calls[3].action = "get_trail_status"
    /\ calls[3].parameters = [Name |-> "main"]

-----------------------------------------------------------------------------
(* Steps on a (service, action) pair without an extraction rule *)

\* the (service, action) pairs extract_metrics has a branch for
RegisteredPairs ==
    {<<"cloudtrail", "describe_trails">>, <<"cloudtrail", "lookup_events">>,
     <<"logs", "describe_log_groups">>, <<"kms", "list_keys">>, <<"kms", "list_aliases">>,
     <<"sns", "list_topics">>, <<"cloudwatch", "describe_alarms">>,
     <<"s3", "list_buckets">>, <<"rds", "describe_db_instances">>,
     <<"acm", "list_certificates">>, <<"securityhub", "get_findings">>,
     <<"securityhub", "get_insights">>}

\* the pairs extract_metrics is asked about: every service and every action
\* it names, in any combination, and those of the stored steps it does not name
MetricPairs ==
    LET named == RegisteredPairs \cup ClientMethods \cup StepOps
                 \cup {<<"iam", "list_roles">>, <<"config", "describe_config_rules">>}
    IN  {p[1] : p \in named} \X {p[2] : p \in named}

\* responses a remote call returns
SampleResponses ==
    {EmptyDict, [IsLogging |-> TRUE],
     [trailList |-> <<Trail("main", TRUE, TRUE)>>, Keys |-> <<[KeyId |-> "k1"]>>,
      Events |-> <<[EventId |-> "e1"]>>]}

\* the positions of the steps that succeeded on a pair without a branch
UnregisteredSuccesses ==
    {i \in SucceededAttempts : <<StepAt(i).service, StepAt(i).action>> \notin RegisteredPairs}

\* C22: extract_metrics returns the empty map for every (service, action)
\* pair it has no branch for, whatever the response holds. A step that
\* succeeded on such a pair has its entry in step_results with success true
\* and an empty metrics map, and when the run is scored the metrics scored are
\* exactly those of the other steps that succeeded.
C22_UnregisteredPairNoMetrics ==
    /\ \A p \in MetricPairs \ RegisteredPairs : \A r \in SampleResponses :
         extract_metrics(p[1], p[2], r) = EmptyDict
    /\ \A i \in UnregisteredSuccesses :
         /\ StepKey(StepAt(i)) \in KeysOf(step_results)
         /\ ValueAt(step_results, StepKey(StepAt(i))).isdict
         /\ ValueAt(step_results, StepKey(StepAt(i))).success
         /\ ValueAt(step_results, StepKey(StepAt(i))).metrics = EmptyDict
         /\ StepErrorKey(StepAt(i)) \notin KeysOf(step_results)
    /\ (pc = "done" /\ scored = 1) =>
         DOMAIN result.scores =
            UNION {DOMAIN MetricsOf(i) : i \in SucceededAttempts \ UnregisteredSuccesses}

\* C22 witness: a trail status check succeeded with a response that holds
\* data, a listing step succeeded too, and the run was scored on the
\* listing's metrics alone
C22_Witness ==
    /\ pc = "done"
    /\ scored = 1
    /\ UnregisteredSuccesses = {1}
    /\ calls[2].answer = Ok([IsLogging |-> TRUE])
    /\ SucceededAttempts = {1, 2}
    /\ DOMAIN result.scores = {"trail_count", "multi_region_trails", "logging_enabled_trails"}

-----------------------------------------------------------------------------
(* The phases of execute_ksi_validation *)

\* the remote calls the step being taken adds
NewCalls == {calls'[n] : n \in (Len(calls) + 1)..Len(calls')}

\* C23: every step of a run of execute_ksi_validation moves it forward in the
\* order rule resolution and parameter merge, context acquisition, step
\* execution, scoring, done. The rule and the merged parameters are set only
\* in the first phase. The session is set once, in the context phase, before
\* any step was run or remote call made. Remote calls are made only in the
\* step phase, each with that session, which the step phase leaves as it is.
\* calculate_ksi_score is called only in the scoring phase, after every step
\* was run, and makes no remote call. Once the call has returned (with ERROR
\* or any other status) nothing of the run changes.
C23_PhaseOrder ==
    [][/\ pc = "start" => pc' \in {"assume", "done"}
       /\ pc = "assume" => pc' \in {"steps", "score", "done"}
       /\ pc = "steps" => pc' \in {"steps", "score", "done"}
       /\ pc = "score" => pc' = "done"
       /\ pc = "done" => UNCHANGED engineVars
       /\ (rule' # rule \/ parameters' # parameters) =>
             /\ pc = "start" /\ pc' = "assume"
             /\ rule = None /\ rule' # None
       /\ session' # session =>
             /\ pc = "assume" /\ pc' \in {"steps", "score"}
             /\ session = None /\ session' # None
             /\ rule # None
             /\ calls = <<>> /\ attempts = <<>>
       /\ (calls' # calls \/ attempts' # attempts) =>
             /\ pc = "steps"
             /\ session # None /\ session' = session
             /\ SubSeq(calls', 1, Len(calls)) = calls
             /\ \A c \in NewCalls : c.session = session
       /\ scored' # scored =>
             /\ pc = "score" /\ pc' = "done"
             /\ scored = 0
             /\ Len(attempts) = Len(rule.validation_steps)
             /\ calls' = calls
       /\ (pc' = "done" /\ result'.status = "ERROR") =>
             /\ scored' = 0
             /\ calls' = calls
    ]_vars

\* C23 witness: a run for a tenant of another account went through every
\* phase: its steps each made a call with the assumed-role session and it
\* was scored
C23_Witness ==
    /\ pc = "done"
    /\ scored = 1
    /\ session = [kind |-> "assumed", role |-> RoleArn]
    /\ Len(calls) = MaxSteps
    /\ \A n \in 1..Len(calls) : calls[n].session = session

-----------------------------------------------------------------------------
(* Two runs that differ in the tenant's override *)

\* custom_parameters an override item can hold instead: none, the declared
\* parameter with another value, and that together with an undeclared one
OverrideChoices ==
    {EmptyDict, [min_trail_count |-> 5], [min_trail_count |-> 5, max_age_days |-> 30]}

InitOverride ==
    /\ rules_table \in SentinelRuleTables
    /\ tenant = CrossTenant
    /\ overrides_table = TenantOverrides(<<KsiId, VersionStr(1, 0)>>)
    /\ CallStarted

\* a second call of execute_ksi_validation on stored data that differs only in
\* the custom_parameters of the tenant's override item; the stores and the
\* remote side answer as they did to the first
RerunWithOverride ==
    /\ pc = "done"
    /\ run = 1
    /\ \E key \in DOMAIN overrides_table : \E custom \in OverrideChoices :
         /\ custom # overrides_table[key].custom_parameters
         /\ overrides_table' = [overrides_table EXCEPT ![key].custom_parameters = custom]
    /\ run' = 2
    /\ prev' = result
    /\ replay' = [env |-> env, calls |-> calls, swapped |-> {}]
    /\ EngineCalled(ksi)
    /\ UNCHANGED <<rules_table, tenant, fnVars, trigVars, tvVars, adminVars>>

NextOverride == Next \/ RerunWithOverride

SpecOverride == InitOverride /\ [][NextOverride]_vars

\* C24: two runs that differ only in the custom_parameters of the tenant's
\* override make the same remote calls, in the same order, with the same
\* parameters and session, and return results that agree in every field but
\* parameters_used: the same status, score, findings, scores, step_results,
\* error and rule_version.
C24_OverrideOnlyInParametersUsed ==
    (run = 2 /\ pc = "done") =>
        /\ calls = replay.calls
        /\ DOMAIN result = DOMAIN prev
        /\ \A field \in DOMAIN result \ {"parameters_used"} : result[field] = prev[field]
        /\ Verdict(result) = Verdict(prev)
        /\ StepResultsOf(result) = StepResultsOf(prev)

\* C24 witness: both runs were scored after two remote calls, and the
\* override gave the second run another value of min_trail_count
C24_Witness ==
    /\ run = 2
    /\ pc = "done"
    /\ scored = 1
    /\ Len(calls) >= 2
    /\ prev.parameters_used = [min_trail_count |-> 2]
    /\ result.parameters_used = [min_trail_count |-> 5]

-----------------------------------------------------------------------------
(* The onboarding handlers of lambda/handler.py *)

\* the largest step number an update request carries
MaxStepNumber == 8

OnboardingTenantId == "tenant-1a2b3c4d"

\* the ksi_ids get_ksi_defaults lists
AvailableKsis == <<"KSI-MLA-01", "KSI-CNA-01">>

\* d.get(k) is truthy: the key is there and its string is not empty
Truthy(d, k) == k \in DOMAIN d /\ d[k] # ""

Max(a, b) == IF a >= b THEN a ELSE b

\* the item start_tenant_onboarding puts; of the fields it initialises, those
\* that no onboarding handler reads or writes again are left out
start_tenant_onboarding(onboarding_data) ==
    [tenant_id |-> OnboardingTenantId,
     status |-> "onboarding",
     onboarding_step |-> 1,
     organization |-> DictGet(onboarding_data, "organization", EmptyDict),
     contacts |-> [primary |-> EmptyDict, technical |-> EmptyDict, billing |-> EmptyDict],
     aws_accounts |-> [primary_account_id |-> "", cross_account_role_arn |-> "",
                       external_id |-> "", role_status |-> "pending"],
     iam_role_config |-> [role_name |-> "KSIValidationRole", permissions_verified |-> FALSE],
     compliance |-> [fedramp_level |-> ""],
     preferences |-> [notification_email |-> ""],
     enabled_ksis |-> <<>>,
     ksi_schedule |-> "daily"]

\* the section of the item that steps 1 to 6 update
SectionOf(step) ==
    CASE step = 1 -> "organization"
      [] step = 2 -> "contacts"
      [] step = 3 -> "aws_accounts"
      [] step = 4 -> "iam_role_config"
      [] step = 5 -> "compliance"
      [] step = 6 -> "preferences"

\* the item update_onboarding_step puts, from the item it read
update_onboarding_step(item, step, data) ==
    LET updated ==
            IF step \in 1..6
            THEN [item EXCEPT ![SectionOf(step)] = DictUpdate(@, data)]
            ELSE IF step = 7
            THEN [item EXCEPT !.enabled_ksis = DictGet(data, "enabled_ksis", <<>>),
                              !.ksi_schedule = DictGet(data, "ksi_schedule", "daily")]
            ELSE item
    IN  [updated EXCEPT !.onboarding_step = Max(item.onboarding_step, step)]

\* how the two calls of test_cross_account_connection can end: both pass,
\* assume_role raises, describe_regions raises
TestOutcomes == {"ok", "assume_denied", "probe_denied"}

\* the item test_cross_account_connection puts, from the item it read
test_cross_account_connection(item, outcome) ==
    [item EXCEPT !.aws_accounts.role_status =
        IF outcome = "ok" THEN "verified" ELSE "failed"]

\* CompletionErrors without the test of role_status
CompletionErrorsUnverified(item) ==
    {e \in {"Organization name is required (Step 1)",
            "Primary contact email is required (Step 2)",
            "Primary AWS account ID is required (Step 3)",
            "Cross-account role ARN is required (Step 4)",
            "FedRAMP level is required (Step 5)",
            "Notification email is required (Step 6)"} :
        \/ e = "Organization name is required (Step 1)"
           /\ ~Truthy(item.organization, "name")
        \/ e = "Primary contact email is required (Step 2)"
           /\ ~Truthy(DictGet(item.contacts, "primary", EmptyDict), "email")
        \/ e = "Primary AWS account ID is required (Step 3)"
           /\ ~Truthy(item.aws_accounts, "primary_account_id")
        \/ e = "Cross-account role ARN is required (Step 4)"
           /\ ~Truthy(item.aws_accounts, "cross_account_role_arn")
        \/ e = "FedRAMP level is required (Step 5)"
           /\ ~Truthy(item.compliance, "fedramp_level")
        \/ e = "Notification email is required (Step 6)"
           /\ ~Truthy(item.preferences, "notification_email")}

\* validation_errors of complete_tenant_onboarding
CompletionErrors(item) ==
    {e \in {"Organization name is required (Step 1)",
            "Primary contact email is required (Step 2)",
            "Primary AWS account ID is required (Step 3)",
            "Cross-account role ARN is required (Step 4)",
            "Cross-account role must be verified (Step 4)",
            "FedRAMP level is required (Step 5)",
            "Notification email is required (Step 6)"} :
        \/ e = "Organization name is required (Step 1)"
           /\ ~Truthy(item.organization, "name")
        \/ e = "Primary contact email is required (Step 2)"
           /\ ~Truthy(DictGet(item.contacts, "primary", EmptyDict), "email")
        \/ e = "Primary AWS account ID is required (Step 3)"
           /\ ~Truthy(item.aws_accounts, "primary_account_id")
        \/ e = "Cross-account role ARN is required (Step 4)"
           /\ ~Truthy(item.aws_accounts, "cross_account_role_arn")
        \/ e = "Cross-account role must be verified (Step 4)"
           /\ DictGet(item.aws_accounts, "role_status", "") # "verified"
        \/ e = "FedRAMP level is required (Step 5)"
           /\ ~Truthy(item.compliance, "fedramp_level")
        \/ e = "Notification email is required (Step 6)"
           /\ ~Truthy(item.preferences, "notification_email")}

\* the item complete_tenant_onboarding puts, from the item it read
complete_tenant_onboarding(item) ==
    [item EXCEPT !.status = "active",
                 !.onboarding_step = 7,
                 !.enabled_ksis = IF @ = <<>> THEN AvailableKsis ELSE @]

\* the 'data' an update request for a step carries
StepData(step) ==
    CASE step = 1 -> {[name |-> "Acme"]}
      [] step = 2 -> {[primary |-> [email |-> "admin@acme.example"]]}
      [] step = 3 -> {[primary_account_id |-> OtherAccount, cross_account_role_arn |-> RoleArn],
                      [cross_account_role_arn |-> ""],
                      [role_status |-> "verified"]}
      [] step = 4 -> {[permissions_verified |-> TRUE]}
      [] step = 5 -> {[fedramp_level |-> "Moderate"]}
      [] step = 6 -> {[notification_email |-> "alerts@acme.example"]}
      [] step = 7 -> {[enabled_ksis |-> <<KsiId>>]}
      [] OTHER -> {EmptyDict}

\* the requests to the onboarding endpoints for the tenant
UpdateCalls ==
    UNION {{[op |-> "update", step |-> step, data |-> data] : data \in StepData(step)} :
           step \in 0..MaxStepNumber}
OnboardingCalls ==
    {[op |-> "start", data |-> data] :
        data \in {EmptyDict, [organization |-> [name |-> "Acme"]]}}
    \cup UpdateCalls \cup {[op |-> "test"], [op |-> "complete"]}

Responded(c, code) == [pc |-> "done", call |-> c, response |-> [statusCode |-> code]]

\* request r enters its handler, which runs up to and including its first
\* access to the tenants table and the checks made on what was read: the
\* put_item of start_tenant_onboarding, the get_item of the others
OnboardingGet(r, c) ==
    IF c.op = "start"
    THEN /\ ob_tenant = None
         /\ ob_tenant' = start_tenant_onboarding(c.data)
         /\ ob_tested' = "none"
         /\ ob_req' = [ob_req EXCEPT ![r] = Responded(c, 201)]
    ELSE IF ob_tenant = None
    THEN /\ ob_req' = [ob_req EXCEPT ![r] = Responded(c, 404)]
         /\ UNCHANGED <<ob_tenant, ob_tested>>
    ELSE IF c.op = "test" /\ ~Truthy(ob_tenant.aws_accounts, "cross_account_role_arn")
    THEN /\ ob_req' = [ob_req EXCEPT ![r] = Responded(c, 400)]
         /\ ob_tested' = "refused"
         /\ UNCHANGED ob_tenant
    ELSE IF c.op = "complete"
            /\ (ob_tenant.status # "onboarding" \/ CompletionErrors(ob_tenant) # {})
    THEN /\ ob_req' = [ob_req EXCEPT ![r] = Responded(c, 400)]
         /\ UNCHANGED <<ob_tenant, ob_tested>>
    ELSE /\ ob_req' = [ob_req EXCEPT ![r] = [pc |-> "read", call |-> c, tenant |-> ob_tenant]]
         /\ UNCHANGED <<ob_tenant, ob_tested>>

\* a request is made while no other is being handled
OnboardingSerial ==
    /\ \A r \in Requests : ob_req[r].pc # "read"
    /\ \E c \in OnboardingCalls : OnboardingGet(1, c)
    /\ UNCHANGED <<cu_pc, cu_dry_run, cu_table, cu_corrupt, cu_backup, cu_deleted,
                   engineVars, fnVars, trigVars, tvVars>>

\* a request is made, whatever the other requests are doing
OnboardingConcurrent ==
    /\ \E r \in Requests : \E c \in OnboardingCalls :
         /\ ob_req[r].pc = "idle"
         /\ OnboardingGet(r, c)
    /\ UNCHANGED <<cu_pc, cu_dry_run, cu_table, cu_corrupt, cu_backup, cu_deleted,
                   engineVars, fnVars, trigVars, tvVars>>

\* the rest of a handler: it changes the item it read, puts it and returns
OnboardingPut ==
    /\ \E r \in Requests :
         /\ ob_req[r].pc = "read"
         /\ LET c == ob_req[r].call
                item == ob_req[r].tenant
            IN  IF c.op = "update"
                THEN /\ ob_tenant' = update_onboarding_step(item, c.step, c.data)
                     /\ ob_req' = [ob_req EXCEPT ![r] = Responded(c, 200)]
                     /\ UNCHANGED ob_tested
                ELSE IF c.op = "test"
                THEN \E outcome \in TestOutcomes :
                       /\ ob_tenant' = test_cross_account_connection(item, outcome)
                       /\ ob_tested' = IF outcome = "ok" THEN "passed" ELSE "failed"
                       /\ ob_req' = [ob_req EXCEPT ![r] =
                                        Responded(c, IF outcome = "ok" THEN 200 ELSE 400)]
                ELSE /\ ob_tenant' = complete_tenant_onboarding(item)
                     /\ ob_req' = [ob_req EXCEPT ![r] = Responded(c, 200)]
                     /\ UNCHANGED ob_tested
    /\ UNCHANGED <<cu_pc, cu_dry_run, cu_table, cu_corrupt, cu_backup, cu_deleted,
                   engineVars, fnVars, trigVars, tvVars>>

\* no call of the validation engine, of a pure function or of a trigger runs
EngineAtRest ==
    /\ rules_table = <<>>
    /\ overrides_table = NoOverrides
    /\ tenant = None
    /\ ksi = ""
    /\ run = 1
    /\ pc = "idle"
    /\ rule = None
    /\ parameters = EmptyDict
    /\ session = None
    /\ idx = 0
    /\ step_results = <<>>
    /\ result = NoResult
    /\ calls = <<>>
    /\ attempts = <<>>
    /\ env = NoEnv
    /\ scored = 0
    /\ prev = NoResult
    /\ replay = NoReplay
    /\ call = NoCall
    /\ ret = NotReturned
    /\ t_request = NoRequest
    /\ t_rules = <<>>
    /\ t_run = 1
    /\ t_pc = "idle"
    /\ t_available = <<>>
    /\ t_i = 0
    /\ t_results = <<>>
    /\ t_executions = <<>>
    /\ t_response = NoResponse
    /\ t_first = <<>>
    /\ TenantIdle

\* no tenant is stored and no request was made
InitOnboarding ==
    /\ EngineAtRest
    /\ CleanupIdle
    /\ OnboardingIdle

NextOnboarding == OnboardingSerial \/ OnboardingPut

SpecOnboarding == InitOnboarding /\ [][NextOnboarding]_vars

\* a tenant was started and no other request was made yet
InitOnboardingRace ==
    /\ EngineAtRest
    /\ CleanupIdle
    /\ ob_tenant \in {start_tenant_onboarding(c.data) : c \in {c \in OnboardingCalls : c.op = "start"}}
    /\ ob_req = [r \in Requests |-> [pc |-> "idle"]]
    /\ ob_tested = "none"

NextOnboardingRace == OnboardingConcurrent \/ OnboardingPut

SpecOnboardingRace == InitOnboardingRace /\ [][NextOnboardingRace]_vars

\* every key of data is in the section with the value data gives it
HoldsData(section, data) == \A k \in DOMAIN data : k \in DOMAIN section /\ section[k] = data[k]

\* C25: when two update_onboarding_step requests for the tenant that update
\* different sections have both returned 200, the stored item holds in each
\* of the two sections the data of the request that updated it, however the
\* steps of the two requests were interleaved.
C25_BothUpdatesStored ==
    \A r1, r2 \in Requests :
        (/\ r1 # r2
         /\ ob_req[r1].pc = "done" /\ ob_req[r2].pc = "done"
         /\ ob_req[r1].call.op = "update" /\ ob_req[r2].call.op = "update"
         /\ ob_req[r1].response.statusCode = 200
         /\ ob_req[r2].response.statusCode = 200
         /\ ob_req[r1].call.step \in 1..6 /\ ob_req[r2].call.step \in 1..6
         /\ ob_req[r1].call.step # ob_req[r2].call.step)
        => /\ HoldsData(ob_tenant[SectionOf(ob_req[r1].call.step)], ob_req[r1].call.data)
           /\ HoldsData(ob_tenant[SectionOf(ob_req[r2].call.step)], ob_req[r2].call.data)

\* the stored item is in status 'onboarding' and holds everything
\* complete_tenant_onboarding asks for
ReadyToComplete ==
    /\ ob_tenant # None
    /\ ob_tenant.status = "onboarding"
    /\ Truthy(ob_tenant.organization, "name")
    /\ Truthy(ob_tenant.contacts.primary, "email")
    /\ Truthy(ob_tenant.aws_accounts, "primary_account_id")
    /\ Truthy(ob_tenant.aws_accounts, "cross_account_role_arn")
    /\ ob_tenant.aws_accounts.role_status = "verified"
    /\ Truthy(ob_tenant.compliance, "fedramp_level")
    /\ Truthy(ob_tenant.preferences, "notification_email")

\* request r returns from complete_tenant_onboarding in the step being taken
CompleteReturns(r) ==
    /\ ob_req'[r] # ob_req[r]
    /\ ob_req'[r].pc = "done"
    /\ ob_req'[r].call.op = "complete"

\* C26: when complete_tenant_onboarding returns, then if the stored tenant is
\* in status 'onboarding' and has an organization name, a primary contact
\* email, a primary account id, a cross-account role ARN, role_status
\* 'verified', a FedRAMP level and a notification email, the call returns 200
\* and the stored status is 'active'; in every other case the stored item is
\* what it was and the call returns 404 when there is no item and 400
\* otherwise. No other step makes a stored status 'active'.
C26_ActivatesOnlyWhenComplete ==
    [][/\ \A r \in Requests :
            CompleteReturns(r) =>
                IF ReadyToComplete
                THEN /\ ob_req'[r].response.statusCode = 200
                     /\ ob_tenant'.status = "active"
                ELSE /\ ob_tenant' = ob_tenant
                     /\ ob_req'[r].response.statusCode = IF ob_tenant = None THEN 404 ELSE 400
       /\ (/\ ob_tenant' # None
           /\ ob_tenant'.status = "active"
           /\ (ob_tenant = None \/ ob_tenant.status # "active"))
          => /\ ReadyToComplete
             /\ \E r \in Requests : CompleteReturns(r)
    ]_vars

\* C26 witness: the tenant was activated by a complete request that returned
\* 200, and a second complete request on the active tenant returned 400
C26_Witness ==
    /\ ob_tenant # None
    /\ ob_tenant.status = "active"
    /\ ob_tenant.aws_accounts.role_status = "verified"
    /\ ob_tested = "passed"
    /\ ob_req[1].pc = "done"
    /\ ob_req[1].call.op = "complete"
    /\ ob_req[1].response.statusCode = 400

\* C27: over any sequence of start, update, test and complete requests, the
\* stored aws_accounts.role_status is 'verified' only if the last
\* test_cross_account_connection on the tenant passed both its calls.
C27_VerifiedOnlyAfterPassedTest ==
    (ob_tenant # None /\ ob_tenant.aws_accounts.role_status = "verified")
        => ob_tested = "passed"

\* C28: after any sequence of start, update and complete requests, with
\* whatever step number the update requests carry, the stored onboarding_step
\* is an integer from 1 to 7.
C28_StepWithinSeven ==
    ob_tenant # None => ob_tenant.onboarding_step \in 1..7

-----------------------------------------------------------------------------
(* The loop of trigger_tenant_validation over enabled_ksis *)

\* C29: trigger_tenant_validation runs the engine for the entries of
\* enabled_ksis one after the other in list order: the i-th result is the one
\* for the i-th entry, and while the loop runs the engine is at work on the
\* entry that follows the results so far, whatever their status. A call that
\* has begun the loop returns only after the last entry, with status 202 and
\* one result for each entry in that order. Every record stored for the
\* request carries the one execution_id the response names.
C29_EveryKsiInOrder ==
    /\ \A i \in 1..Len(tv_results) :
         /\ tv_results[i].ksi_id = tenant.enabled_ksis[i]
         /\ tv_results[i].status \in {"PASS", "FAIL", "ERROR"}
    /\ tv_pc = "running" =>
         /\ Len(tv_results) = tv_i - 1
         /\ tv_i \in 1..Len(tenant.enabled_ksis)
         /\ ksi = tenant.enabled_ksis[tv_i]
    /\ tv_pc = "returned" =>
         IF tenant = None
         THEN tv_results = <<>> /\ tv_response.statusCode \in {400, 500}
         ELSE /\ tv_response.statusCode = 202
              /\ tv_response.results = tv_results
              /\ Len(tv_results) = Len(tenant.enabled_ksis)
              /\ \A n \in 1..Len(tv_records) :
                   tv_records[n].execution_id = tv_response.execution_id
    /\ \A m, n \in 1..Len(tv_records) :
         /\ tv_records[m].execution_id = tv_records[n].execution_id
         /\ m < n => \E i, j \in 1..Len(tv_results) :
                       /\ i < j
                       /\ tv_records[m].ksi_id = tenant.enabled_ksis[i]
                       /\ tv_records[n].ksi_id = tenant.enabled_ksis[j]

\* C29 witness: of two enabled KSIs the first ended in FAIL and the second in
\* ERROR, both are in the 202 response in that order, and both were stored
C29_Witness ==
    /\ tv_pc = "returned"
    /\ tv_response.statusCode = 202
    /\ tenant.enabled_ksis = <<KsiId, "KSI-CNA-01">>
    /\ tv_response.results[1].status = "FAIL"
    /\ tv_response.results[2].status = "ERROR"
    /\ Len(tv_records) = 2

-----------------------------------------------------------------------------
(* cleanupdb.py: scan, backup, delete, report *)

\* the largest number of records in the executions table
MaxRecords == 2

\* n as two decimal digits
Pad2(n) == IF n < 10 THEN <<DigitChar(0)>> \o StrOfNat(n) ELSE StrOfNat(n)

\* the ISO timestamp of midnight of a day of 2025, as code points
IsoTimestamp(month, day) ==
    StrOfNat(2025) \o <<45>> \o Pad2(month) \o <<45>> \o Pad2(day)
    \o <<84>> \o Pad2(0) \o <<58>> \o Pad2(0) \o <<58>> \o Pad2(0)

QUALITY_CUTOFF_DATE == IsoTimestamp(7, 30)
AUTOMATED_KSI_PREFIXES == {"KSI-MLA-", "KSI-SVC-", "KSI-CNA-", "KSI-IAM-"}

\* the first eight characters of the ksi_ids of the stored records
KsiPrefix(ksi_id) ==
    CASE ksi_id = "KSI-MLA-01" -> "KSI-MLA-"
      [] ksi_id = "KSI-PIY-01" -> "KSI-PIY-"
      [] OTHER -> ""

\* is_corrupt_record(record): the critical and the warning issues, as sets
is_corrupt_record(record) ==
    LET timestamp == DictGet(record, "timestamp", <<>>)
        cli_commands == DictGet(record, "cli_command_details", <<>>)
        commands_executed == DictGet(record, "commands_executed", 0)
        ksi_id == DictGet(record, "ksi_id", "")
        is_automated_ksi == KsiPrefix(ksi_id) \in AUTOMATED_KSI_PREFIXES
        assertion_reason == DictGet(record, "assertion_reason", "")
        successful_commands == DictGet(record, "successful_commands", 0)
        failed_commands == DictGet(record, "failed_commands", 0)
    IN  [critical |->
            {issue \in {"old record", "missing ksi_id", "missing tenant_id",
                        "missing cli details", "missing assertion", "impossible counts"} :
                \/ issue = "old record"
                   /\ timestamp # <<>> /\ StrLess(timestamp, QUALITY_CUTOFF_DATE)
                \/ issue = "missing ksi_id" /\ ksi_id = ""
                \/ issue = "missing tenant_id" /\ DictGet(record, "tenant_id", "") = ""
                \/ issue = "missing cli details"
                   /\ is_automated_ksi /\ commands_executed > 0 /\ cli_commands = <<>>
                \/ issue = "missing assertion" /\ "assertion" \notin DOMAIN record
                \/ issue = "impossible counts"
                   /\ successful_commands + failed_commands > commands_executed},
         warning |->
            {issue \in {"count mismatch", "empty commands", "missing reasoning"} :
                \/ issue = "count mismatch"
                   /\ is_automated_ksi /\ commands_executed > 0 /\ cli_commands # <<>>
                   /\ Len(cli_commands) # commands_executed
                \/ issue = "empty commands"
                   /\ \E i \in 1..Len(cli_commands) : cli_commands[i] \in {"", " "}
                \/ issue = "missing reasoning" /\ assertion_reason \in {"", " "}}]

\* an execution record as trigger_ksi_validation stores it
CleanupRecord(execution_id, ksi_id, timestamp, details, reason) ==
    [tenant_id |-> TenantId, execution_id |-> execution_id, ksi_id |-> ksi_id,
     timestamp |-> timestamp, cli_command_details |-> details, commands_executed |-> 1,
     successful_commands |-> 1, failed_commands |-> 0, assertion |-> TRUE,
     assertion_reason |-> reason]

\* the stored records: one without issues, one from before the cutoff, one
\* with a warning only, one automated without command details
CleanupRecords ==
    {CleanupRecord("exec-1", "KSI-MLA-01", IsoTimestamp(8, 15), <<"aws cloudtrail describe-trails">>, "ok"),
     CleanupRecord("exec-2", "KSI-PIY-01", IsoTimestamp(7, 1), <<"aws iam list-roles">>, "ok"),
     CleanupRecord("exec-3", "KSI-PIY-01", IsoTimestamp(8, 15), <<"aws iam list-roles">>, ""),
     CleanupRecord("exec-4", "KSI-MLA-01", IsoTimestamp(8, 15), <<>>, "ok")}

\* the executions tables: up to MaxRecords different records, in scan order
CleanupTables ==
    UNION {{t \in [1..n -> CleanupRecords] : \A a, b \in 1..n : a # b => t[a] # t[b]} :
           n \in 0..MaxRecords}

\* the corrupt_records scan_for_corrupt_records returns after reading items
ScanResult(items) ==
    LET found == SelectSeq(items, LAMBDA r : is_corrupt_record(r).critical # {}
                                             \/ is_corrupt_record(r).warning # {})
    IN  [i \in 1..Len(found) |-> [record |-> found[i], issues |-> is_corrupt_record(found[i])]]

\* the key delete_corrupt_records deletes for an entry of corrupt_records
DeleteKey(corrupt_item) ==
    [tenant_id |-> corrupt_item.record.tenant_id,
     execution_id |-> DictGet(corrupt_item.record, "execution_id",
                              DictGet(corrupt_item.record, "ksi_id", "unknown"))]

\* delete_corrupt_records without the test of DRY_RUN
DeleteKeysLive(corrupt_records, dry_run) ==
    {DeleteKey(corrupt_records[i]) : i \in 1..Len(corrupt_records)}

\* the keys delete_corrupt_records calls delete_item with
DeleteKeys(corrupt_records, dry_run) ==
    IF corrupt_records = <<>> \/ dry_run THEN {}
    ELSE {DeleteKey(corrupt_records[i]) : i \in 1..Len(corrupt_records)}

\* main up to the scan: the banner, and in live mode the confirmation
CleanupStart ==
    /\ cu_pc = "called"
    /\ IF cu_dry_run
       THEN cu_pc' = "scan"
       ELSE \E confirmation \in {"YES", "no"} :
              cu_pc' = IF confirmation = "YES" THEN "scan" ELSE "cancelled"
    /\ UNCHANGED <<cu_dry_run, cu_table, cu_corrupt, cu_backup, cu_deleted,
                   ob_tenant, ob_req, ob_tested, engineVars, fnVars, trigVars, tvVars>>

\* step 1: scan_for_corrupt_records; a scan that raises keeps what the pages
\* before gave
CleanupScan ==
    /\ cu_pc = "scan"
    /\ \E read \in 0..Len(cu_table) :
         /\ cu_corrupt' = ScanResult(SubSeq(cu_table, 1, read))
         /\ cu_pc' = IF cu_corrupt' = <<>> THEN "clean" ELSE "backup"
    /\ UNCHANGED <<cu_dry_run, cu_table, cu_backup, cu_deleted,
                   ob_tenant, ob_req, ob_tested, engineVars, fnVars, trigVars, tvVars>>

\* step 2: backup_corrupt_records, to S3 or else to a local file
CleanupBackup ==
    /\ cu_pc = "backup"
    /\ \E outcome \in {"s3", "local", "failed"} :
         /\ cu_backup' = outcome
         /\ cu_pc' = IF outcome = "failed" THEN "stopped" ELSE "delete"
    /\ UNCHANGED <<cu_dry_run, cu_table, cu_corrupt, cu_deleted,
                   ob_tenant, ob_req, ob_tested, engineVars, fnVars, trigVars, tvVars>>

\* steps 3 and 4: delete_corrupt_records and the report; a batch that raises
\* may have deleted any part of its keys
CleanupDelete ==
    /\ cu_pc = "delete"
    /\ \E deleted \in SUBSET DeleteKeys(cu_corrupt, cu_dry_run) :
         /\ cu_deleted' = deleted
         /\ cu_table' = SelectSeq(cu_table,
                LAMBDA r : [tenant_id |-> r.tenant_id, execution_id |-> r.execution_id]
                           \notin deleted)
    /\ cu_pc' = "done"
    /\ UNCHANGED <<cu_dry_run, cu_corrupt, cu_backup,
                   ob_tenant, ob_req, ob_tested, engineVars, fnVars, trigVars, tvVars>>

\* main has just been called
InitCleanup ==
    /\ EngineAtRest
    /\ OnboardingIdle
    /\ cu_pc = "called"
    /\ cu_dry_run \in BOOLEAN
    /\ cu_table \in CleanupTables
    /\ cu_corrupt = <<>>
    /\ cu_backup = "none"
    /\ cu_deleted = {}

NextCleanup == CleanupStart \/ CleanupScan \/ CleanupBackup \/ CleanupDelete

SpecCleanup == InitCleanup /\ [][NextCleanup]_vars

\* the records of the table
StoredRecords == {cu_table[i] : i \in 1..Len(cu_table)}

\* C30: in a run of main, delete_item is called only when DRY_RUN is False and
\* backup_corrupt_records returned True (the backup went to S3 or to a local
\* file) before; the table changes in no other step than the deletion. When
\* the backup failed, the run has stopped there, nothing was deleted and every
\* record found corrupt is still stored; the same holds in a dry run.
C30_DeleteOnlyAfterBackup ==
    /\ cu_deleted # {} =>
         /\ ~cu_dry_run
         /\ cu_backup \in {"s3", "local"}
         /\ cu_pc = "done"
    /\ cu_backup = "failed" => cu_pc = "stopped"
    /\ (cu_dry_run \/ cu_backup \notin {"s3", "local"} \/ cu_pc # "done") =>
         /\ cu_deleted = {}
         /\ \A i \in 1..Len(cu_corrupt) : cu_corrupt[i].record \in StoredRecords
    /\ cu_pc \in {"cancelled", "clean", "stopped"} => cu_deleted = {}

\* C30 witness: a live run backed two corrupt records up to a local file and
\* deleted them
C30_Witness ==
    /\ cu_pc = "done"
    /\ ~cu_dry_run
    /\ cu_backup = "local"
    /\ Len(cu_corrupt) = 2
    /\ Cardinality(cu_deleted) = 2
    /\ cu_table = <<>>

====
